---- MODULE Spec2Model ----
(***************************************************************************)
(* The blackboard's scene graph and undo engine: CanvasElementManager      *)
(* (src/src/modules/canvasElements.js), the Command classes and            *)
(* CommandManager (src/src/utils/demoMode.js), and the CanvasControls      *)
(* handlers that drive them (src/src/modules/canvasControls.js).           *)
(*                                                                         *)
(* JavaScript objects have identity.  An element object is an index into   *)
(* the heap objs; the arrays elements and selectedElements hold such       *)
(* indices, and so do the commands.  A MoveCommand keeps the very array    *)
(* object that was manager.selectedElements when the drag started; the     *)
(* flag live says that this array still is manager.selectedElements, so    *)
(* that an in-place push on the selection is seen by the command.  A       *)
(* DeleteCommand is handed that array too, but its execute() replaces      *)
(* manager.selectedElements before anything can be pushed onto it.         *)
(*                                                                         *)
(* StorageManager (src/src/managers/StorageManager.js) saves and loads the *)
(* store through the item localStorage and runs the autosave interval; a   *)
(* page load is AIBlackboard.setup (src/main.js).  The view transform of   *)
(* BlackboardRenderer (zoom, panX, panY) is computed exactly, on           *)
(* fractions.  Image loads (insertImage, renderImageElement) and the await *)
(* of PDFImporter.importSelected (src/src/modules/pdfImporter.js) are      *)
(* steps of their own: a callback runs when its event is dispatched.       *)
(*                                                                         *)
(* Not modelled: an element's data payload (of a stroke, its points and    *)
(* colour), Command.timestamp, graphs, the cursor, and pointer positions   *)
(* under a zoom other than 1 or a pan that is not whole.  The canvas is at *)
(* the origin of the client area.  Array.prototype.sort is the stable sort *)
(* of ECMAScript 2019.                                                     *)
(*                                                                         *)
(* The handlers are pure operators on the record World; the actions        *)
(* commit their results.  These specifications share them:                 *)
(*   Spec           editing: text, clicks, marquee, clipboard, AI text,    *)
(*                  Delete, undo, redo, Clear                              *)
(*   SpecLayer      the layer keys                                         *)
(*   SpecDrag       drags of the selection                                 *)
(*   SpecHistory    a long run of commands against maxUndoLevels           *)
(*   SpecCmd        the command classes driven directly                    *)
(*   SpecHit        hit-testing and marquees on chosen points              *)
(*   SpecStorage    autosave and page loads, foreign clipboard text        *)
(*   SpecClipboard  copy and paste of several elements                     *)
(*   SpecCopies     Ctrl+D on copies whose originals moved or are gone     *)
(*   SpecView       zoom and pan                                           *)
(*   SpecTimer      the autosave interval started and stopped              *)
(*   SpecCommit     drags that end near the threshold of handleMouseUp     *)
(*   SpecImages     images loading and decoding in any order               *)
(*   SpecImport     a PDF import suspended at its await                    *)
(*   SpecSeq        commands executed one after another, then undone       *)
(*   SpecOrder      the render order across a Delete and its undo          *)
(*   SpecStacks     executeCommand, undo, redo and clear in any order      *)
(*   SpecPointer    two mouse buttons, touches, the space key, the tools   *)
(***************************************************************************)
EXTENDS Integers, Sequences, FiniteSets, TLC

\* ------------------------------------------------------------------ bounds
MaxObjs == 2            \* element objects ever allocated in one behaviour
MaxStack == 3           \* commands a handler may find on undoStack and still add one
MaxCoord == 40          \* drags keep every element's x and y within 0..MaxCoord
MaxZ == 3               \* layer keys keep nextZIndex and every zIndex at most MaxZ
MinZ == 1               \* layer keys keep every zIndex at least -MinZ
MaxRestored == 2        \* objects the undo of a directly driven Delete may add to MaxObjs
MaxLoaded == 2          \* objects a page load may add to MaxObjs
MaxPasted == 2          \* objects a paste of copied elements may add to MaxObjs
MaxTimers == 3          \* intervals ever set in one behaviour
MaxHistory == 61        \* commands executed in the history scenario
DragStep == 10          \* length of one drag of the history scenario
CanvasWidth == 180      \* canvas.width / scale
CanvasHeight == 120     \* canvas.height / scale
MaxPan == 10            \* zooms and pans keep panX and panY within -MaxPan..MaxPan
MaxPanDen == 12         \* and their denominators at most MaxPanDen

\* ------------------------------------------------------- program constants
maxUndoLevels == 50
DragThreshold == 5
DuplicateOffset == 20
padding == 40
lineHeight == 40

VARIABLES
    objs,                   \* heap of CanvasElement objects
    elements,               \* CanvasElementManager.elements
    selectedElements,       \* CanvasElementManager.selectedElements
    nextZIndex,             \* CanvasElementManager.nextZIndex
    clipboard,              \* CanvasElementManager.clipboard
    undoStack,              \* CommandManager.undoStack
    redoStack,              \* CommandManager.redoStack
    isDraggingElement,      \* CanvasControls.isDraggingElement
    draggedElements,        \* CanvasControls.draggedElements
    draggedLive,            \* draggedElements is the array manager.selectedElements
    elementStartPositions,  \* CanvasControls.elementStartPositions
    dragStart,              \* CanvasControls.dragStartX / dragStartY
    isMarqueeSelecting,     \* CanvasControls.isMarqueeSelecting
    marqueeStart,           \* CanvasControls.marqueeStartX / marqueeStartY
    marqueeCurrent,         \* CanvasControls.marqueeCurrentX / marqueeCurrentY
    sysClipboard,           \* the system clipboard's text/plain item
    currentY,               \* BlackboardRenderer.currentY
    animating,              \* the element renderText is animating (0: none) and its startY
    localStorage,           \* the item localStorage keeps under StorageManager.storageKey
    autoSaveInterval,       \* StorageManager.autoSaveInterval (0: null)
    timers,                 \* the interval timers the browser keeps active
    timerIds,               \* how many timer ids setInterval has issued
    zoom,                   \* BlackboardRenderer.zoom, in units of 1 / ZoomUnit
    panX,                   \* BlackboardRenderer.panX, a fraction <<n, d>>
    panY,                   \* BlackboardRenderer.panY, a fraction <<n, d>>
    pendingImages,          \* Image objects: files loading, cachedImages decoding
    pdfImport,              \* the importSelected call suspended at its await
    isPanning,              \* CanvasControls.isPanning
    lastXY,                 \* CanvasControls.lastX / lastY
    spacePressed,           \* CanvasControls.spacePressed
    currentTool,            \* CanvasControls.currentTool
    isDrawing,              \* CanvasControls.isDrawing
    currentStroke,          \* CanvasControls.currentStroke: its points (<<>>: null)
    touchStartDistance,     \* CanvasControls.touchStartDistance
    lastTouch,              \* CanvasControls.lastTouchX / lastTouchY
    buttons,                \* the mouse buttons that are held down
    touches,                \* the touch points on the canvas
    lastOp                  \* the handler that ran last and what it returned

vars == <<objs, elements, selectedElements, nextZIndex, clipboard, undoStack,
          redoStack, isDraggingElement, draggedElements, draggedLive,
          elementStartPositions, dragStart, isMarqueeSelecting, marqueeStart,
          marqueeCurrent, sysClipboard, currentY, animating, localStorage,
          autoSaveInterval, timers, timerIds, zoom, panX, panY, pendingImages,
          pdfImport, isPanning, lastXY, spacePressed, currentTool, isDrawing,
          currentStroke, touchStartDistance, lastTouch, buttons, touches, lastOp>>

\* The whole program state as one record, so that operations compose.
World ==
    [objs |-> objs, elements |-> elements, selectedElements |-> selectedElements,
     nextZIndex |-> nextZIndex, clipboard |-> clipboard,
     undoStack |-> undoStack, redoStack |-> redoStack,
     isDraggingElement |-> isDraggingElement, draggedElements |-> draggedElements,
     draggedLive |-> draggedLive, elementStartPositions |-> elementStartPositions,
     dragStart |-> dragStart, isMarqueeSelecting |-> isMarqueeSelecting,
     marqueeStart |-> marqueeStart, marqueeCurrent |-> marqueeCurrent,
     sysClipboard |-> sysClipboard, currentY |-> currentY, animating |-> animating,
     localStorage |-> localStorage, autoSaveInterval |-> autoSaveInterval,
     timers |-> timers, timerIds |-> timerIds, zoom |-> zoom, panX |-> panX,
     panY |-> panY, pendingImages |-> pendingImages, pdfImport |-> pdfImport,
     isPanning |-> isPanning, lastXY |-> lastXY, spacePressed |-> spacePressed,
     currentTool |-> currentTool, isDrawing |-> isDrawing,
     currentStroke |-> currentStroke, touchStartDistance |-> touchStartDistance,
     lastTouch |-> lastTouch, buttons |-> buttons, touches |-> touches]

Commit(w, op, ret) ==
    /\ objs' = w.objs
    /\ elements' = w.elements
    /\ selectedElements' = w.selectedElements
    /\ nextZIndex' = w.nextZIndex
    /\ clipboard' = w.clipboard
    /\ undoStack' = w.undoStack
    /\ redoStack' = w.redoStack
    /\ isDraggingElement' = w.isDraggingElement
    /\ draggedElements' = w.draggedElements
    /\ draggedLive' = w.draggedLive
    /\ elementStartPositions' = w.elementStartPositions
    /\ dragStart' = w.dragStart
    /\ isMarqueeSelecting' = w.isMarqueeSelecting
    /\ marqueeStart' = w.marqueeStart
    /\ marqueeCurrent' = w.marqueeCurrent
    /\ sysClipboard' = w.sysClipboard
    /\ currentY' = w.currentY
    /\ animating' = w.animating
    /\ localStorage' = w.localStorage
    /\ autoSaveInterval' = w.autoSaveInterval
    /\ timers' = w.timers
    /\ timerIds' = w.timerIds
    /\ zoom' = w.zoom
    /\ panX' = w.panX
    /\ panY' = w.panY
    /\ pendingImages' = w.pendingImages
    /\ pdfImport' = w.pdfImport
    /\ isPanning' = w.isPanning
    /\ lastXY' = w.lastXY
    /\ spacePressed' = w.spacePressed
    /\ currentTool' = w.currentTool
    /\ isDrawing' = w.isDrawing
    /\ currentStroke' = w.currentStroke
    /\ touchStartDistance' = w.touchStartDistance
    /\ lastTouch' = w.lastTouch
    /\ buttons' = w.buttons
    /\ touches' = w.touches
    /\ lastOp' = [op |-> op, ret |-> ret]

\* ------------------------------------------------------- JavaScript values
\* Geometry is integer wherever the program computes it from integers.  The
\* three values below stand for the non-numbers that reach an element's
\* fields through pasted or persisted JSON; they lie outside every number
\* the model computes.  The geometric tests (isPointInElement,
\* selectInBounds, movedFar) are written for numbers and are not applied to
\* them: no specification combines them with a pointer.
JS_NaN == 0 - 1000001
JS_null == 0 - 1000002
JS_undefined == 0 - 1000003

\* ToNumber, for the operands of + and - and the arguments of Math.min
ToNumber(v) ==
    IF v = JS_undefined THEN JS_NaN ELSE IF v = JS_null THEN 0 ELSE v

JS_plus(a, b) ==
    IF ToNumber(a) = JS_NaN \/ ToNumber(b) = JS_NaN THEN JS_NaN
    ELSE ToNumber(a) + ToNumber(b)

JS_minus(a, b) ==
    IF ToNumber(a) = JS_NaN \/ ToNumber(b) = JS_NaN THEN JS_NaN
    ELSE ToNumber(a) - ToNumber(b)

\* v || 0
OrZero(v) == IF v \in {0, JS_NaN, JS_null, JS_undefined} THEN 0 ELSE v

\* JSON.stringify followed by JSON.parse, on the value of a property:
\* NaN is written as null; an undefined property is left out and reads as
\* undefined again; numbers and null come back as they were.
JSON_value(v) == IF v = JS_NaN THEN JS_null ELSE v

\* ------------------------------------------------------------------ view
\* zoom is kept in units of 1 / ZoomUnit; panX and panY are fractions
\* <<numerator, denominator>> in lowest terms with a positive denominator,
\* so that the arithmetic of the view transform is exact.
ZoomUnit == 1000
Zero == <<0, 1>>

\* No importSelected call is suspended.  Of a suspended call: the selected
\* segments, the index of the segment whose SVG is awaited, minX and minY,
\* insertX and insertY, and the elements added so far.
NoImport ==
    [segments |-> <<>>, next |-> 0, min |-> <<0, 0>>, insert |-> <<0, 0>>, added |-> <<>>]

\* ------------------------------------------------------------ small helpers
Range(s) == {s[i] : i \in 1..Len(s)}

Min(S) == CHOOSE m \in S : \A n \in S : m <= n

\* ================================================= CanvasElement / manager
\* CanvasElement.generateId: a fresh string per constructed object.
generateId(w) == Len(w.objs) + 1

\* new CanvasElement(type, data, x, y)
CanvasElement(w, type, x, y) ==
    [id |-> generateId(w), type |-> type, x |-> x, y |-> y,
     width |-> 0, height |-> 0, zIndex |-> 0]

\* addElement: the new object is the last one of the heap of the result.
addElement(w, type, x, y) ==
    LET element == [CanvasElement(w, type, x, y) EXCEPT !.zIndex = w.nextZIndex]
    IN [w EXCEPT !.objs = Append(@, element),
                 !.nextZIndex = @ + 1,
                 !.elements = Append(@, Len(w.objs) + 1)]

LastObj(w) == Len(w.objs)

\* this.selectedElements = <a new array>: no holder of the old array sees it.
Detach(stack) ==
    [i \in 1..Len(stack) |->
        IF stack[i].kind = "Move" THEN [stack[i] EXCEPT !.live = FALSE] ELSE stack[i]]

SelAssign(w, s) ==
    [w EXCEPT !.selectedElements = s,
              !.undoStack = Detach(@),
              !.redoStack = Detach(@),
              !.draggedLive = FALSE]

\* this.selectedElements.push(element): every holder of the array sees it.
PushLive(stack, o) ==
    [i \in 1..Len(stack) |->
        IF stack[i].kind = "Move" /\ stack[i].live
        THEN [stack[i] EXCEPT !.elements = Append(@, o)] ELSE stack[i]]

SelPush(w, o) ==
    [w EXCEPT !.selectedElements = Append(@, o),
              !.undoStack = PushLive(@, o),
              !.redoStack = PushLive(@, o),
              !.draggedElements = IF w.draggedLive THEN Append(@, o) ELSE @]

\* A removeElement that forgets the selection.
removeElement_storeOnly(w, id) ==
    [w EXCEPT !.elements = SelectSeq(@, LAMBDA o : w.objs[o].id # id)]

removeElement(w, id) ==
    LET w1 == [w EXCEPT !.elements = SelectSeq(@, LAMBDA o : w.objs[o].id # id)]
    IN SelAssign(w1, SelectSeq(w.selectedElements, LAMBDA o : w.objs[o].id # id))

\* [...arr].sort((a, b) => key(a) - key(b)): a stable sort, ascending by key;
\* key is a function from object to number.
RECURSIVE InsertSorted(_, _, _)
InsertSorted(sorted, o, key) ==
    IF sorted = <<>> THEN <<o>>
    ELSE IF key[Head(sorted)] - key[o] > 0 THEN <<o>> \o sorted
    ELSE <<Head(sorted)>> \o InsertSorted(Tail(sorted), o, key)

RECURSIVE StableSort(_, _)
StableSort(s, key) ==
    IF s = <<>> THEN <<>>
    ELSE InsertSorted(StableSort(SubSeq(s, 1, Len(s) - 1), key), s[Len(s)], key)

\* (a, b) => a.zIndex - b.zIndex
AscendingZ(w) == [o \in 1..Len(w.objs) |-> w.objs[o].zIndex]

\* (a, b) => b.zIndex - a.zIndex
DescendingZ(w) == [o \in 1..Len(w.objs) |-> 0 - w.objs[o].zIndex]

\* A getAllElements that forgets to sort.
getAllElements_unsorted(w) == w.elements

getAllElements(w) == StableSort(w.elements, AscendingZ(w))

clear(w) ==
    [SelAssign(w, <<>>) EXCEPT !.elements = <<>>, !.clipboard = <<>>, !.nextZIndex = 0]

isPointInElement(w, o, x, y) ==
    /\ x >= w.objs[o].x
    /\ x <= w.objs[o].x + w.objs[o].width
    /\ y >= w.objs[o].y
    /\ y <= w.objs[o].y + w.objs[o].height

\* getElementAt scanning from the lowest zIndex up
getElementAt_lowest(w, x, y) ==
    LET sorted == StableSort(w.elements, AscendingZ(w))
        hits == SelectSeq(sorted, LAMBDA o : isPointInElement(w, o, x, y))
    IN IF hits = <<>> THEN 0 ELSE Head(hits)

\* getElementAt: 0 stands for null.
getElementAt(w, x, y) ==
    LET sorted == StableSort(w.elements, DescendingZ(w))
        hits == SelectSeq(sorted, LAMBDA o : isPointInElement(w, o, x, y))
    IN IF hits = <<>> THEN 0 ELSE Head(hits)

isSelected(w, o) ==
    \E i \in 1..Len(w.selectedElements) :
        w.objs[w.selectedElements[i]].id = w.objs[o].id

selectElement(w, o, additive) ==
    IF ~additive THEN SelAssign(w, <<o>>)
    ELSE IF ~isSelected(w, o) THEN SelPush(w, o) ELSE w

addToSelection(w, o) == IF ~isSelected(w, o) THEN SelPush(w, o) ELSE w

removeFromSelection(w, o) ==
    SelAssign(w, SelectSeq(w.selectedElements, LAMBDA s : w.objs[s].id # w.objs[o].id))

toggleSelection(w, o) ==
    IF isSelected(w, o) THEN removeFromSelection(w, o) ELSE addToSelection(w, o)

clearSelection(w) == SelAssign(w, <<>>)

selectAll(w) == SelAssign(w, w.elements)

copySelected(w) ==
    IF Len(w.selectedElements) = 0 THEN w
    ELSE [w EXCEPT !.clipboard =
            [i \in 1..Len(w.selectedElements) |->
                LET el == w.objs[w.selectedElements[i]]
                IN [type |-> el.type, width |-> el.width, height |-> el.height,
                    x |-> el.x, y |-> el.y]]]

\* The forEach of paste and of pasteFromJSON: one addElement per entry, at
\* the position computed for it.
RECURSIVE pasteEach(_, _, _)
pasteEach(w, placed, i) ==
    IF i > Len(placed) THEN w
    ELSE LET w1 == addElement(w, placed[i].type, placed[i].x, placed[i].y)
             w2 == [w1 EXCEPT !.objs[LastObj(w1)].width = placed[i].width,
                              !.objs[LastObj(w1)].height = placed[i].height]
         IN pasteEach(w2, placed, i + 1)

\* paste putting each copy where its entry was recorded
paste_inPlace(w, offsetX, offsetY) ==
    IF Len(w.clipboard) = 0 THEN w
    ELSE LET placed == [i \in 1..Len(w.clipboard) |->
                          [w.clipboard[i] EXCEPT !.x = OrZero(@), !.y = OrZero(@)]]
             w1 == pasteEach(w, placed, 1)
         IN SelAssign(w1, [i \in 1..Len(w.clipboard) |-> Len(w.objs) + i])

\* paste: the new elements are the objects allocated by the call.
paste(w, offsetX, offsetY) ==
    IF Len(w.clipboard) = 0 THEN w
    ELSE LET placed == [i \in 1..Len(w.clipboard) |->
                          [w.clipboard[i] EXCEPT !.x = JS_plus(OrZero(@), offsetX),
                                                 !.y = JS_plus(OrZero(@), offsetY)]]
             w1 == pasteEach(w, placed, 1)
         IN SelAssign(w1, [i \in 1..Len(w.clipboard) |-> Len(w.objs) + i])

\* JSON text, as far as pasteFromJSON tells texts apart: text that is not
\* JSON (kind "text"), JSON that is not an array (kind "object"), and an
\* array of objects (kind "json").  JSON.stringify / JSON.parse carry the numbers and
\* strings of a clipboard entry unchanged, write NaN as null, and leave
\* out what is undefined.
PlainText == [kind |-> "text", entries |-> <<>>]

JSON_stringify(entries) ==
    [kind |-> "json",
     entries |-> [i \in 1..Len(entries) |->
                    [type |-> entries[i].type,
                     width |-> JSON_value(entries[i].width),
                     height |-> JSON_value(entries[i].height),
                     x |-> JSON_value(entries[i].x),
                     y |-> JSON_value(entries[i].y)]]]

\* The text "[{}]": an array of one object without any property.
EmptyObject ==
    [type |-> "undefined", width |-> JS_undefined, height |-> JS_undefined,
     x |-> JS_undefined, y |-> JS_undefined]

\* Math.min folded over a property of the entries, from Infinity
Math_min(vs) ==
    IF \E v \in vs : ToNumber(v) = JS_NaN THEN JS_NaN
    ELSE Min({ToNumber(v) : v \in vs})

\* Text that parses to JSON which is not an array, such as {"a":1} or 5.
NonArrayJSON == [kind |-> "object", entries |-> <<>>]

\* pasteFromJSON taking whatever is not an array for an empty array
pasteFromJSON_lenient(w, json, targetX, targetY) ==
    [w |-> SelAssign(w, <<>>), n |-> 0]

\* pasteFromJSON placing each entry at the target plus its own coordinates
pasteFromJSON_unanchored(w, json, targetX, targetY) ==
    IF json.kind # "json" THEN [w |-> w, n |-> 0]
    ELSE LET placed == [i \in 1..Len(json.entries) |->
                          [json.entries[i] EXCEPT !.x = JS_plus(targetX, @),
                                                  !.y = JS_plus(targetY, @)]]
             w1 == pasteEach(w, placed, 1)
         IN [w |-> SelAssign(w1, [i \in 1..Len(placed) |-> Len(w.objs) + i]),
             n |-> Len(placed)]

\* pasteFromJSON: returns the state and the number of elements it returned.
pasteFromJSON(w, json, targetX, targetY) ==
    IF json.kind # "json" THEN [w |-> w, n |-> 0]
    ELSE IF Len(json.entries) = 0 THEN [w |-> SelAssign(w, <<>>), n |-> 0]
    ELSE LET minX == Math_min({json.entries[i].x : i \in 1..Len(json.entries)})
             minY == Math_min({json.entries[i].y : i \in 1..Len(json.entries)})
             placed == [i \in 1..Len(json.entries) |->
                          [json.entries[i] EXCEPT
                              !.x = JS_plus(targetX, JS_minus(@, minX)),
                              !.y = JS_plus(targetY, JS_minus(@, minY))]]
             w1 == pasteEach(w, placed, 1)
         IN [w |-> SelAssign(w1, [i \in 1..Len(placed) |-> Len(w.objs) + i]),
             n |-> Len(placed)]

duplicateSelected(w) == paste(copySelected(w), DuplicateOffset, DuplicateOffset)

bringToFront(w, o) ==
    [w EXCEPT !.objs[o].zIndex = w.nextZIndex, !.nextZIndex = @ + 1]

\* sendToBack stepping one below the element's own zIndex
sendToBack_oneStep(w, o) == [w EXCEPT !.objs[o].zIndex = @ - 1]

sendToBack(w, o) ==
    LET minZ == Min({w.objs[e].zIndex : e \in Range(w.elements)})
    IN [w EXCEPT !.objs[o].zIndex = minZ - 1]

bringForward(w, o) == [w EXCEPT !.objs[o].zIndex = @ + 1]

sendBackward(w, o) == [w EXCEPT !.objs[o].zIndex = @ - 1]

selectInBounds(w, x, y, width, height) ==
    SelAssign(w, SelectSeq(w.elements, LAMBDA o :
        ~(\/ w.objs[o].x > x + width
          \/ w.objs[o].x + w.objs[o].width < x
          \/ w.objs[o].y > y + height
          \/ w.objs[o].y + w.objs[o].height < y)))

\* ================================================================ commands
\* A command's execute/undo returns the new state and whether it returned
\* (ok) or threw a TypeError (reading .x of undefined) part-way through.
MoveCommand(els, live, oldPositions, newPositions) ==
    [kind |-> "Move", elements |-> els, live |-> live,
     oldPositions |-> oldPositions, newPositions |-> newPositions]

\* elementData: elements.map(el => ({ ...el, data: { ...el.data } }))
DeleteCommand(w, els) ==
    [kind |-> "Delete", elements |-> els, elementData |-> [i \in 1..Len(els) |-> w.objs[els[i]]]]

CreateCommand(o) == [kind |-> "Create", element |-> o]

LayerOrderCommand(els, oldZIndices, newZIndices) ==
    [kind |-> "LayerOrder", elements |-> els,
     oldZIndices |-> oldZIndices, newZIndices |-> newZIndices]

\* this.elements.forEach((el, i) => { el.x = positions[i].x; el.y = positions[i].y })
RECURSIVE setPositions(_, _, _, _)
setPositions(w, els, positions, i) ==
    IF i > Len(els) THEN [w |-> w, ok |-> TRUE]
    ELSE IF i > Len(positions) THEN [w |-> w, ok |-> FALSE]
    ELSE setPositions([w EXCEPT !.objs[els[i]].x = positions[i].x,
                                !.objs[els[i]].y = positions[i].y],
                      els, positions, i + 1)

MoveCommand_execute(w, c) == setPositions(w, c.elements, c.newPositions, 1)

MoveCommand_undo(w, c) == setPositions(w, c.elements, c.oldPositions, 1)

RECURSIVE removeEach(_, _, _)
removeEach(w, els, i) ==
    IF i > Len(els) THEN w
    ELSE removeEach(removeElement(w, w.objs[els[i]].id), els, i + 1)

DeleteCommand_execute(w, c) == [w |-> removeEach(w, c.elements, 1), ok |-> TRUE]

\* A restore that leaves the zIndex addElement assigned.
restoreElement_newZIndex(w, data) ==
    LET w1 == addElement(w, data.type, data.x, data.y)
    IN [w1 EXCEPT !.objs[LastObj(w1)].id = data.id,
                  !.objs[LastObj(w1)].width = data.width,
                  !.objs[LastObj(w1)].height = data.height]

\* One step of the forEach of DeleteCommand.undo.
restoreElement(w, data) ==
    LET w1 == addElement(w, data.type, data.x, data.y)
    IN [w1 EXCEPT !.objs[LastObj(w1)].id = data.id,
                  !.objs[LastObj(w1)].width = data.width,
                  !.objs[LastObj(w1)].height = data.height,
                  !.objs[LastObj(w1)].zIndex = data.zIndex]

RECURSIVE restoreEach(_, _, _)
restoreEach(w, elementData, i) ==
    IF i > Len(elementData) THEN w
    ELSE restoreEach(restoreElement(w, elementData[i]), elementData, i + 1)

DeleteCommand_undo(w, c) == [w |-> restoreEach(w, c.elementData, 1), ok |-> TRUE]

\* An execute that pushes without looking.
CreateCommand_execute_push(w, c) ==
    [w |-> [w EXCEPT !.elements = Append(@, c.element)], ok |-> TRUE]

CreateCommand_execute(w, c) ==
    [w |-> IF c.element \notin Range(w.elements)
           THEN [w EXCEPT !.elements = Append(@, c.element)]
           ELSE w,
     ok |-> TRUE]

CreateCommand_undo(w, c) ==
    [w |-> removeElement(w, w.objs[c.element].id), ok |-> TRUE]

RECURSIVE setZIndices(_, _, _, _)
setZIndices(w, els, zs, i) ==
    IF i > Len(els) THEN w
    ELSE setZIndices([w EXCEPT !.objs[els[i]].zIndex = zs[i]], els, zs, i + 1)

LayerOrderCommand_execute(w, c) ==
    [w |-> setZIndices(w, c.elements, c.newZIndices, 1), ok |-> TRUE]

LayerOrderCommand_undo(w, c) ==
    [w |-> setZIndices(w, c.elements, c.oldZIndices, 1), ok |-> TRUE]

Command_execute(w, c) ==
    CASE c.kind = "Move" -> MoveCommand_execute(w, c)
      [] c.kind = "Delete" -> DeleteCommand_execute(w, c)
      [] c.kind = "Create" -> CreateCommand_execute(w, c)
      [] c.kind = "LayerOrder" -> LayerOrderCommand_execute(w, c)

Command_undo(w, c) ==
    CASE c.kind = "Move" -> MoveCommand_undo(w, c)
      [] c.kind = "Delete" -> DeleteCommand_undo(w, c)
      [] c.kind = "Create" -> CreateCommand_undo(w, c)
      [] c.kind = "LayerOrder" -> LayerOrderCommand_undo(w, c)

\* Command.redo() { this.execute() }: no command class overrides it.
Command_redo(w, c) == Command_execute(w, c)

\* ========================================================== CommandManager
\* Each returns the new state and the call's outcome: "true", "false" (the
\* boolean returned), "none" (no return value) or "throw".
\* A push that never drops the oldest command.
pushUndo_unbounded(stack, c) == Append(stack, c)

pushUndo(stack, c) ==
    LET pushed == Append(stack, c)
    IN IF Len(pushed) > maxUndoLevels THEN Tail(pushed) ELSE pushed

\* An executeCommand that keeps the redo stack.
executeCommand_keepRedo(w, c) ==
    LET r == Command_execute(w, c)
    IN IF ~r.ok THEN [w |-> r.w, ret |-> "throw"]
       ELSE [w |-> [r.w EXCEPT !.undoStack = pushUndo(@, c)], ret |-> "none"]

executeCommand(w, c) ==
    LET r == Command_execute(w, c)
    IN IF ~r.ok THEN [w |-> r.w, ret |-> "throw"]
       ELSE [w |-> [r.w EXCEPT !.undoStack = pushUndo(@, c), !.redoStack = <<>>],
             ret |-> "none"]

undo(w) ==
    IF Len(w.undoStack) = 0 THEN [w |-> w, ret |-> "false"]
    ELSE LET command == w.undoStack[Len(w.undoStack)]
             popped == [w EXCEPT !.undoStack = SubSeq(@, 1, Len(@) - 1)]
             r == Command_undo(popped, command)
         IN IF ~r.ok THEN [w |-> r.w, ret |-> "throw"]
            ELSE [w |-> [r.w EXCEPT !.redoStack = Append(@, command)], ret |-> "true"]

redo(w) ==
    IF Len(w.redoStack) = 0 THEN [w |-> w, ret |-> "false"]
    ELSE LET command == w.redoStack[Len(w.redoStack)]
             popped == [w EXCEPT !.redoStack = SubSeq(@, 1, Len(@) - 1)]
             r == Command_redo(popped, command)
         IN IF ~r.ok THEN [w |-> r.w, ret |-> "throw"]
            ELSE [w |-> [r.w EXCEPT !.undoStack = Append(@, command)], ret |-> "true"]

CommandManager_clear(w) == [w EXCEPT !.undoStack = <<>>, !.redoStack = <<>>]

\* =========================================================== StorageManager
\* The item under storageKey, as far as loadCanvas tells items apart: no
\* item (getItem returns null), text that JSON.parse rejects, JSON without
\* an elements array, and a document with an elements array (kind
\* "canvas").  An entry of the array is an object or the JSON value null.
NoItem == [kind |-> "none", elements |-> <<>>]

NotJSON == [kind |-> "text", elements |-> <<>>]

NoElementsArray == [kind |-> "object", elements |-> <<>>]

NullEntry ==
    [json |-> "null", id |-> 0, type |-> "undefined", x |-> JS_undefined,
     y |-> JS_undefined, width |-> JS_undefined, height |-> JS_undefined,
     zIndex |-> JS_undefined]

\* serializeCanvas: the elements in getAllElements() order, each reduced to
\* id, type, x, y, width, height, zIndex (and data), through JSON.stringify.
serializeCanvas(w) ==
    LET els == getAllElements(w)
    IN [kind |-> "canvas",
        elements |-> [i \in 1..Len(els) |->
            LET el == w.objs[els[i]]
            IN [json |-> "object", id |-> el.id, type |-> el.type,
                x |-> JSON_value(el.x), y |-> JSON_value(el.y),
                width |-> JSON_value(el.width), height |-> JSON_value(el.height),
                zIndex |-> JSON_value(el.zIndex)]]]

\* deserializeCanvas: the parsed document, or null (ok FALSE) when
\* JSON.parse throws or there is no elements array.
deserializeCanvas(json) ==
    IF json.kind = "canvas" THEN [ok |-> TRUE, elements |-> json.elements]
    ELSE [ok |-> FALSE, elements |-> <<>>]

saveCanvas(w) == [w EXCEPT !.localStorage = serializeCanvas(w)]

\* startAutoSave: setInterval issues a new timer id, unless a timer is kept.
\* startAutoSave setting an interval whether or not one is running
startAutoSave_again(w) ==
    [w EXCEPT !.timerIds = @ + 1,
              !.timers = @ \cup {w.timerIds + 1},
              !.autoSaveInterval = w.timerIds + 1]

startAutoSave(w) ==
    IF w.autoSaveInterval # 0 THEN w
    ELSE [w EXCEPT !.timerIds = @ + 1,
                   !.timers = @ \cup {w.timerIds + 1},
                   !.autoSaveInterval = w.timerIds + 1]

\* stopAutoSave: clearInterval of the timer kept, if one is.
stopAutoSave(w) ==
    IF w.autoSaveInterval # 0
    THEN [w EXCEPT !.timers = @ \ {w.autoSaveInterval}, !.autoSaveInterval = 0]
    ELSE w

\* The forEach of loadCanvas.  Reading elData.type of a null entry throws
\* a TypeError, which leaves the forEach with the entries before it loaded.
RECURSIVE loadEach(_, _, _)
loadEach(w, entries, i) ==
    IF i > Len(entries) THEN [w |-> w, ok |-> TRUE]
    ELSE IF entries[i].json = "null" THEN [w |-> w, ok |-> FALSE]
    ELSE LET elData == entries[i]
             w1 == addElement(w, elData.type, elData.x, elData.y)
             w2 == [w1 EXCEPT !.objs[LastObj(w1)].id = elData.id,
                              !.objs[LastObj(w1)].width = elData.width,
                              !.objs[LastObj(w1)].height = elData.height,
                              !.objs[LastObj(w1)].zIndex = OrZero(elData.zIndex)]
         IN loadEach(w2, entries, i + 1)

\* loadCanvas: returns the state and "true" or "false"; the catch block
\* turns an exception of the replay into "false".
loadCanvas(w) ==
    IF w.localStorage.kind = "none" THEN [w |-> w, ret |-> "false"]
    ELSE LET canvasData == deserializeCanvas(w.localStorage)
         IN IF ~canvasData.ok THEN [w |-> w, ret |-> "false"]
            ELSE LET r == loadEach(clear(w), canvasData.elements, 1)
                 IN [w |-> r.w, ret |-> IF r.ok THEN "true" ELSE "false"]

\* ============================================= BlackboardRenderer (view)
minZoom == 100
maxZoom == 5000

Abs(n) == IF n < 0 THEN 0 - n ELSE n

RECURSIVE GCD(_, _)
GCD(a, b) == IF b = 0 THEN a ELSE GCD(b, a % b)

\* The number n / d, d # 0, in lowest terms with a positive denominator.
Frac(n, d) ==
    LET g == GCD(Abs(n), Abs(d))
        sign == IF d < 0 THEN 0 - 1 ELSE 1
    IN <<(sign * n) \div g, (sign * d) \div g>>

resetView(w) == [w EXCEPT !.zoom = ZoomUnit, !.panX = Zero, !.panY = Zero]

\* zoomAt without the upper clamp
zoomAt_noMax(w, x, y, delta) ==
    LET oldZoom == w.zoom
        sum == w.zoom + delta
        newZoom == IF minZoom > sum THEN minZoom ELSE sum
    IN [w EXCEPT !.zoom = newZoom,
                 !.panX = Frac(x * @[2] * oldZoom - (x * @[2] - @[1]) * newZoom,
                               @[2] * oldZoom),
                 !.panY = Frac(y * @[2] * oldZoom - (y * @[2] - @[1]) * newZoom,
                               @[2] * oldZoom)]

\* zoomAt scaling the pan about the origin of the screen
zoomAt_aboutOrigin(w, x, y, delta) ==
    LET oldZoom == w.zoom
        sum == w.zoom + delta
        least == IF maxZoom < sum THEN maxZoom ELSE sum
        newZoom == IF minZoom > least THEN minZoom ELSE least
    IN [w EXCEPT !.zoom = newZoom,
                 !.panX = Frac(@[1] * newZoom, @[2] * oldZoom),
                 !.panY = Frac(@[1] * newZoom, @[2] * oldZoom)]

\* zoomAt: zoomChange is newZoom / oldZoom, and the new pan is
\* x - (x - pan) * zoomChange.
zoomAt(w, x, y, delta) ==
    LET oldZoom == w.zoom
        sum == w.zoom + delta
        least == IF maxZoom < sum THEN maxZoom ELSE sum
        newZoom == IF minZoom > least THEN minZoom ELSE least
    IN [w EXCEPT !.zoom = newZoom,
                 !.panX = Frac(x * @[2] * oldZoom - (x * @[2] - @[1]) * newZoom,
                               @[2] * oldZoom),
                 !.panY = Frac(y * @[2] * oldZoom - (y * @[2] - @[1]) * newZoom,
                               @[2] * oldZoom)]

setZoom(w, delta) == zoomAt(w, CanvasWidth \div 2, CanvasHeight \div 2, delta)

pan(w, dx, dy) ==
    [w EXCEPT !.panX = Frac(@[1] + dx * @[2], @[2]),
              !.panY = Frac(@[1] + dy * @[2], @[2])]

\* (screenX - panX) / zoom and (screenY - panY) / zoom
screenToCanvas(w, screenX, screenY) ==
    <<Frac((screenX * w.panX[2] - w.panX[1]) * ZoomUnit, w.panX[2] * w.zoom),
      Frac((screenY * w.panY[2] - w.panY[1]) * ZoomUnit, w.panY[2] * w.zoom)>>

\* handleWheel: delta = -deltaY * 0.001 at the pointer
handleWheel(w, p, deltaY) == zoomAt(w, p[1], p[2], 0 - deltaY)

\* handleTouchMove with two touches, a pinch being under way:
\* delta = (distance - touchStartDistance) * 0.01 at the centre of the touches
handlePinch(w, centre, spread) == zoomAt(w, centre[1], centre[2], spread * 10)

\* ================================================ CanvasControls (inputs)
\* Pointer positions on the screen: the canvas coordinates too where the
\* view is left alone (zoom 1, pan 0).
\* Buttons go down on DownPts; the pointer moves to MovePts.
DownPts == {<<5, 5>>, <<25, 25>>}
MovePts == {<<5, 5>>, <<25, 25>>}

\* Where text is inserted, and the size of the inserted text: the measured
\* width of its one line, and lines.length * lineHeight.
InsertPts == {<<0, 0>>}
TextSize == <<10, lineHeight>>

\* Where the pointer is when text is pasted.
PastePts == {<<5, 5>>}

\* ============================================== CanvasControls (handlers)
\* The handlers as pure functions of the state; each returns [w, ret].

\* deleteSelected (Delete / Backspace)
Controls_deleteSelected(w) ==
    IF Len(w.selectedElements) > 0
    THEN executeCommand(w, DeleteCommand(w, w.selectedElements))
    ELSE [w |-> w, ret |-> "none"]

\* finish of handleTextClick, insertText: addElement, measured size, CreateCommand
insertText(w, x, y) ==
    LET w1 == addElement(w, "text", x, y)
        w2 == [w1 EXCEPT !.objs[LastObj(w1)].width = TextSize[1],
                         !.objs[LastObj(w1)].height = TextSize[2]]
    IN executeCommand(w2, CreateCommand(LastObj(w2)))

\* ---- images
\* pendingImages lists the Image objects: a load is a file being read and
\* decoded by insertImage, with the position it was inserted at; a decode is
\* the cachedImage of an element, complete or not.
maxSize == 500

Load(file, x, y) == [kind |-> "load", file |-> file, x |-> x, y |-> y]

Decode(o) == [kind |-> "decode", element |-> o, complete |-> FALSE]

\* insertImage up to reader.readAsDataURL(file)
insertImage(w, file, x, y) == [w EXCEPT !.pendingImages = Append(@, Load(file, x, y))]

\* redrawCanvas, as far as it changes anything: renderImageElement gives
\* every image element of the store that has no cachedImage a new Image.
redrawCanvas(w) ==
    LET cached == {w.pendingImages[i].element :
                      i \in {j \in 1..Len(w.pendingImages) :
                                w.pendingImages[j].kind = "decode"}}
        NoCache(o) == w.objs[o].type = "image" /\ o \notin cached
        fresh == SelectSeq(getAllElements(w), NoCache)
    IN [w EXCEPT !.pendingImages = @ \o [i \in 1..Len(fresh) |-> Decode(fresh[i])]]

Without(q, i) == SubSeq(q, 1, i - 1) \o SubSeq(q, i + 1, Len(q))

\* img.onload of insertImage giving its size to every image of the store
imageLoaded_resizeAll(w, i) ==
    LET img == w.pendingImages[i]
        w1 == addElement(w, "image", img.x, img.y)
        w2 == [w1 EXCEPT !.objs = [o \in 1..Len(w1.objs) |->
                                     IF w1.objs[o].type = "image"
                                     THEN [w1.objs[o] EXCEPT !.width = img.file[1],
                                                             !.height = img.file[2]]
                                     ELSE w1.objs[o]],
                         !.pendingImages = Without(@, i)]
        r == executeCommand(w2, CreateCommand(LastObj(w2)))
    IN [w |-> redrawCanvas(r.w), ret |-> r.ret]

\* img.onload of insertImage for the i-th Image: the size scaled down to
\* maxSize, addElement, CreateCommand, redrawCanvas.
imageLoaded(w, i) ==
    LET img == w.pendingImages[i]
        big == img.file[1] > maxSize \/ img.file[2] > maxSize
        width == IF ~big THEN img.file[1]
                 ELSE IF img.file[1] > img.file[2] THEN maxSize
                 ELSE (maxSize * img.file[1]) \div img.file[2]
        height == IF ~big THEN img.file[2]
                  ELSE IF img.file[1] > img.file[2]
                  THEN (maxSize * img.file[2]) \div img.file[1]
                  ELSE maxSize
        w1 == addElement(w, "image", img.x, img.y)
        w2 == [w1 EXCEPT !.objs[LastObj(w1)].width = width,
                         !.objs[LastObj(w1)].height = height,
                         !.pendingImages = Without(@, i)]
        r == executeCommand(w2, CreateCommand(LastObj(w2)))
    IN [w |-> redrawCanvas(r.w), ret |-> r.ret]

\* img.onload of renderImageElement for the i-th Image: redrawCanvas
imageDecoded(w, i) ==
    redrawCanvas([w EXCEPT !.pendingImages[i].complete = TRUE])

\* ---- PDFImporter
\* Segments of a page: a line of text, vector graphics, a raster image.
TextSegment == [type |-> "text", x |-> 10, y |-> 10, w |-> 10, h |-> 40]
GraphicSegment == [type |-> "graphic", x |-> 30, y |-> 20, w |-> 20, h |-> 20]
ImageSegment == [type |-> "image", x |-> 20, y |-> 50, w |-> 30, h |-> 10]

\* The body of the loop of importSelected for one segment, the SVG of a
\* graphic segment being there (or having failed: the raster fallback gives
\* a src as well): addElement, the size, CreateCommand.
importSegment(w, seg) ==
    LET targetX == w.pdfImport.insert[1] + (seg.x - w.pdfImport.min[1])
        targetY == w.pdfImport.insert[2] + (seg.y - w.pdfImport.min[2])
        w1 == addElement(w, IF seg.type = "text" THEN "text" ELSE "image",
                         targetX, targetY)
        w2 == [w1 EXCEPT
                 !.objs[LastObj(w1)].width =
                     IF seg.type = "text" THEN TextSize[1] ELSE seg.w,
                 !.objs[LastObj(w1)].height =
                     IF seg.type = "text" THEN lineHeight ELSE seg.h,
                 !.pdfImport.added = Append(@, LastObj(w1))]
    IN executeCommand(w2, CreateCommand(LastObj(w2))).w

\* The loop of importSelected from segment k on; svg says that the call has
\* just resumed from the await for segment k.  The call is suspended at the
\* await of every graphic segment, and ends with redrawCanvas.
RECURSIVE importFrom(_, _, _)
importFrom(w, k, svg) ==
    IF k > Len(w.pdfImport.segments)
    THEN [redrawCanvas(w) EXCEPT !.pdfImport = NoImport]
    ELSE IF w.pdfImport.segments[k].type = "graphic" /\ ~svg
    THEN [w EXCEPT !.pdfImport.next = k]
    ELSE importFrom([importSegment(w, w.pdfImport.segments[k]) EXCEPT !.pdfImport.next = 0],
                    k + 1, FALSE)

\* importSelected up to its first await, or to its end
importSelected(w, selected) ==
    IF Len(selected) = 0 THEN w
    ELSE LET minX == Min({selected[i].x : i \in 1..Len(selected)})
             minY == Min({selected[i].y : i \in 1..Len(selected)})
             \* the centre of the view; exact at zoom 1 and pan 0
             insertX == (((CanvasWidth \div 2) * w.panX[2] - w.panX[1]) * ZoomUnit)
                            \div (w.panX[2] * w.zoom)
             insertY == (((CanvasHeight \div 2) * w.panY[2] - w.panY[1]) * ZoomUnit)
                            \div (w.panY[2] * w.zoom)
         IN importFrom([w EXCEPT !.pdfImport =
                           [segments |-> selected, next |-> 0,
                            min |-> <<minX, minY>>, insert |-> <<insertX, insertY>>,
                            added |-> <<>>]],
                       1, FALSE)

\* importSelected from the await it is suspended at
importResume(w) == importFrom(w, w.pdfImport.next, TRUE)

\* handleCopy: the JSON of copySelected goes to the system clipboard.
handleCopy(w) ==
    IF Len(w.selectedElements) > 0
    THEN LET w1 == copySelected(w)
         IN [w1 EXCEPT !.sysClipboard = JSON_stringify(w1.clipboard)]
    ELSE w

\* handlePaste, text/plain item: pasteFromJSON, and insertText when it
\* returned no element.
handlePaste(w, x, y) ==
    LET r == pasteFromJSON(w, w.sysClipboard, x, y)
    IN IF r.n > 0 THEN [w |-> r.w, ret |-> "none"] ELSE insertText(r.w, x, y)

\* BlackboardRenderer.renderText up to its first await
renderText_start(w) ==
    LET w1 == addElement(w, "text", padding, w.currentY)
    IN [w1 EXCEPT !.animating = [element |-> LastObj(w1), startY |-> w.currentY]]

\* ... and after the animation of its one line
renderText_finish(w) ==
    LET y == w.currentY + lineHeight
    IN [w EXCEPT !.currentY = y,
                 !.objs[w.animating.element].height = y - w.animating.startY,
                 !.objs[w.animating.element].width = CanvasWidth - padding * 2,
                 !.animating = [element |-> 0, startY |-> 0]]

RECURSIVE forEachLayer(_, _, _, _)
forEachLayer(w, els, i, key) ==
    IF i > Len(els) THEN w
    ELSE LET w1 == CASE key = "front" -> bringToFront(w, els[i])
                      [] key = "forward" -> bringForward(w, els[i])
                      [] key = "back" -> sendToBack(w, els[i])
                      [] key = "backward" -> sendBackward(w, els[i])
         IN forEachLayer(w1, els, i + 1, key)

\* Ctrl+] / Ctrl+Shift+] / Ctrl+[ / Ctrl+Shift+[
handleLayerKey(w, key) == forEachLayer(w, w.selectedElements, 1, key)

\* canvasCoords = this.renderer.screenToCanvas(screenX, screenY).  The
\* quotients are whole wherever a pointer is used: no specification with a
\* pointer changes the zoom, and they pan by whole steps.
canvasCoords(w, s) ==
    LET c == screenToCanvas(w, s[1], s[2])
    IN <<c[1][1] \div c[1][2], c[2][1] \div c[2][2]>>

setTool(w, tool) == [w EXCEPT !.currentTool = tool]

\* handleKeyDown, Space
handleSpaceDown(w) == [w EXCEPT !.spacePressed = TRUE]

\* handleKeyUp, Space
handleKeyUp(w) == [w EXCEPT !.spacePressed = FALSE]

\* handleMouseDown, the branch of the select tool: p is canvasCoords
selectOrMarquee(w, p, ctrl) ==
    LET element == getElementAt(w, p[1], p[2])
    IN IF element # 0
       THEN IF ctrl THEN toggleSelection(w, element)
            ELSE LET w1 == IF ~isSelected(w, element)
                           THEN selectElement(w, element, FALSE) ELSE w
                 IN [w1 EXCEPT
                       !.isDraggingElement = TRUE,
                       !.draggedElements = w1.selectedElements,
                       !.draggedLive = TRUE,
                       !.dragStart = p,
                       !.elementStartPositions =
                           [i \in 1..Len(w1.selectedElements) |->
                               LET el == w1.objs[w1.selectedElements[i]]
                               IN [id |-> el.id, x |-> el.x, y |-> el.y]]]
       ELSE [(IF ~ctrl THEN clearSelection(w) ELSE w) EXCEPT
                !.isMarqueeSelecting = TRUE,
                !.marqueeStart = p,
                !.marqueeCurrent = p]

\* handleMouseDown: button 0 is the left button, 1 the middle one.  With
\* the text tool handleTextClick opens a textarea, and nothing else
\* happens before its text is inserted.
handleMouseDown(w, s, ctrl, button) ==
    IF \/ w.spacePressed /\ button = 0
       \/ button = 1
       \/ w.currentTool = "pan" /\ button = 0
    THEN [w EXCEPT !.isPanning = TRUE, !.lastXY = s]
    ELSE IF button = 0 /\ ~w.spacePressed /\ w.currentTool = "draw"
    THEN [w EXCEPT !.isDrawing = TRUE, !.currentStroke = <<canvasCoords(w, s)>>]
    ELSE IF button = 0 /\ ~w.spacePressed /\ w.currentTool = "text"
    THEN w
    ELSE IF button = 0 /\ ~w.spacePressed /\ w.currentTool = "select"
    THEN selectOrMarquee(w, canvasCoords(w, s), ctrl)
    ELSE w

\* handleMouseMove: the pan branch pans by the pointer's step; the drag
\* branch moves every dragged element by the pointer's displacement; the
\* draw branch adds a point to the stroke; the marquee branch records the
\* pointer.
handleMouseMove(w, s) ==
    LET p == canvasCoords(w, s)
    IN IF w.isPanning
       THEN [w |-> [pan(w, s[1] - w.lastXY[1], s[2] - w.lastXY[2]) EXCEPT !.lastXY = s],
             ok |-> TRUE]
       ELSE IF w.isDraggingElement /\ Len(w.draggedElements) > 0
       THEN setPositions(w, w.draggedElements,
                         [i \in 1..Len(w.elementStartPositions) |->
                             [x |-> w.elementStartPositions[i].x + (p[1] - w.dragStart[1]),
                              y |-> w.elementStartPositions[i].y + (p[2] - w.dragStart[2])]],
                         1)
       ELSE IF w.isDrawing /\ w.currentStroke # <<>>
       THEN [w |-> [w EXCEPT !.currentStroke = Append(@, p)], ok |-> TRUE]
       ELSE IF w.isMarqueeSelecting
       THEN [w |-> [w EXCEPT !.marqueeCurrent = p], ok |-> TRUE]
       ELSE [w |-> w, ok |-> TRUE]

\* the movement test taking a distance of exactly 5 for movement
movedFar_atLeast(w, i) ==
    LET dx == w.objs[w.draggedElements[i]].x - w.elementStartPositions[i].x
        dy == w.objs[w.draggedElements[i]].y - w.elementStartPositions[i].y
    IN dx * dx + dy * dy >= DragThreshold * DragThreshold

\* distance > 5, on integers: dx^2 + dy^2 > 5^2
movedFar(w, i) ==
    LET dx == w.objs[w.draggedElements[i]].x - w.elementStartPositions[i].x
        dy == w.objs[w.draggedElements[i]].y - w.elementStartPositions[i].y
    IN dx * dx + dy * dy > DragThreshold * DragThreshold

hasMoved(w) ==
    \E i \in 1..Len(w.draggedElements) : i <= Len(w.elementStartPositions) /\ movedFar(w, i)

MinOf(a, b) == IF a < b THEN a ELSE b

Max(S) == CHOOSE m \in S : \A n \in S : m >= n

\* handleMouseUp, the drawing block: a stroke of more than one point becomes
\* an element with the bounding box of the points, and a Create command.
finishStroke(w) ==
    IF w.isDrawing /\ w.currentStroke # <<>>
    THEN LET xs == {w.currentStroke[i][1] : i \in 1..Len(w.currentStroke)}
             ys == {w.currentStroke[i][2] : i \in 1..Len(w.currentStroke)}
             w1 == addElement(w, "stroke", Min(xs), Min(ys))
             w2 == [w1 EXCEPT !.objs[LastObj(w1)].width = Max(xs) - Min(xs),
                              !.objs[LastObj(w1)].height = Max(ys) - Min(ys)]
             w3 == IF Len(w.currentStroke) > 1
                   THEN executeCommand(w2, CreateCommand(LastObj(w2))).w
                   ELSE w
         IN [w3 EXCEPT !.isDrawing = FALSE, !.currentStroke = <<>>]
    ELSE w

\* handleMouseUp: the pan block, the drag block, the drawing block, the
\* marquee block.
handleMouseUp(w) ==
    LET afterPan == [w EXCEPT !.isPanning = FALSE]
        dragged ==
            IF afterPan.isDraggingElement
            THEN LET r == IF Len(afterPan.draggedElements) > 0
                             /\ Len(afterPan.elementStartPositions) > 0
                             /\ hasMoved(afterPan)
                          THEN executeCommand(afterPan,
                                   MoveCommand(afterPan.draggedElements,
                                       afterPan.draggedLive,
                                       afterPan.elementStartPositions,
                                       [i \in 1..Len(afterPan.draggedElements) |->
                                           [x |-> afterPan.objs[afterPan.draggedElements[i]].x,
                                            y |-> afterPan.objs[afterPan.draggedElements[i]].y]]))
                          ELSE [w |-> afterPan, ret |-> "none"]
                 IN [r.w EXCEPT !.isDraggingElement = FALSE,
                                !.draggedElements = <<>>,
                                !.draggedLive = FALSE,
                                !.elementStartPositions = <<>>,
                                !.dragStart = <<0, 0>>]
            ELSE afterPan
        afterDrag == finishStroke(dragged)
        x == MinOf(afterDrag.marqueeStart[1], afterDrag.marqueeCurrent[1])
        y == MinOf(afterDrag.marqueeStart[2], afterDrag.marqueeCurrent[2])
        width == Abs(afterDrag.marqueeCurrent[1] - afterDrag.marqueeStart[1])
        height == Abs(afterDrag.marqueeCurrent[2] - afterDrag.marqueeStart[2])
    IN IF afterDrag.isMarqueeSelecting
       THEN [(IF width > 2 /\ height > 2
              THEN selectInBounds(afterDrag, x, y, width, height)
              ELSE afterDrag) EXCEPT
                !.isMarqueeSelecting = FALSE,
                !.marqueeStart = <<0, 0>>,
                !.marqueeCurrent = <<0, 0>>]
       ELSE afterDrag

\* Math.sqrt of a square
Sqrt(n) == CHOOSE r \in 0..n : r * r = n

\* Math.sqrt(dx * dx + dy * dy) for the two touches
touchDistance(ts) ==
    Sqrt((ts[1][1] - ts[2][1]) * (ts[1][1] - ts[2][1])
         + (ts[1][2] - ts[2][2]) * (ts[1][2] - ts[2][2]))

\* handleTouchStart: ts is e.touches
handleTouchStart(w, ts) ==
    IF Len(ts) = 1
    THEN [w EXCEPT !.isPanning = TRUE, !.lastTouch = ts[1]]
    ELSE IF Len(ts) = 2
    THEN [w EXCEPT !.isPanning = FALSE,
                   !.touchStartDistance = touchDistance(ts),
                   !.lastTouch = <<(ts[1][1] + ts[2][1]) \div 2,
                                   (ts[1][2] + ts[2][2]) \div 2>>]
    ELSE w

\* handleTouchMove: one touch pans, two touches pinch
handleTouchMove(w, ts) ==
    IF Len(ts) = 1 /\ w.isPanning
    THEN [pan(w, ts[1][1] - w.lastTouch[1], ts[1][2] - w.lastTouch[2]) EXCEPT
             !.lastTouch = ts[1]]
    ELSE IF Len(ts) = 2
    THEN [(IF w.touchStartDistance > 0
           THEN handlePinch(w, w.lastTouch, touchDistance(ts) - w.touchStartDistance)
           ELSE w) EXCEPT !.touchStartDistance = touchDistance(ts)]
    ELSE w

handleTouchEnd(w) == [w EXCEPT !.isPanning = FALSE, !.touchStartDistance = 0]

\* ================================================================= actions
\* The components as their constructors leave them, over a heap, an item in
\* localStorage and a system clipboard.
Blank(heap, store, clip) ==
    [objs |-> heap, elements |-> <<>>, selectedElements |-> <<>>,
     nextZIndex |-> 0, clipboard |-> <<>>, undoStack |-> <<>>, redoStack |-> <<>>,
     isDraggingElement |-> FALSE, draggedElements |-> <<>>, draggedLive |-> FALSE,
     elementStartPositions |-> <<>>, dragStart |-> <<0, 0>>,
     isMarqueeSelecting |-> FALSE, marqueeStart |-> <<0, 0>>,
     marqueeCurrent |-> <<0, 0>>, sysClipboard |-> clip, currentY |-> padding,
     animating |-> [element |-> 0, startY |-> 0], localStorage |-> store,
     autoSaveInterval |-> 0, timers |-> {}, timerIds |-> 0, zoom |-> ZoomUnit,
     panX |-> Zero, panY |-> Zero, pendingImages |-> <<>>, pdfImport |-> NoImport,
     isPanning |-> FALSE, lastXY |-> <<0, 0>>, spacePressed |-> FALSE,
     currentTool |-> "select", isDrawing |-> FALSE, currentStroke |-> <<>>,
     touchStartDistance |-> 0, lastTouch |-> <<0, 0>>, buttons |-> {},
     touches |-> <<>>]

\* The state is w, reached by op, which returned ret.
StartWith(w, op, ret) ==
    /\ objs = w.objs
    /\ elements = w.elements
    /\ selectedElements = w.selectedElements
    /\ nextZIndex = w.nextZIndex
    /\ clipboard = w.clipboard
    /\ undoStack = w.undoStack
    /\ redoStack = w.redoStack
    /\ isDraggingElement = w.isDraggingElement
    /\ draggedElements = w.draggedElements
    /\ draggedLive = w.draggedLive
    /\ elementStartPositions = w.elementStartPositions
    /\ dragStart = w.dragStart
    /\ isMarqueeSelecting = w.isMarqueeSelecting
    /\ marqueeStart = w.marqueeStart
    /\ marqueeCurrent = w.marqueeCurrent
    /\ sysClipboard = w.sysClipboard
    /\ currentY = w.currentY
    /\ animating = w.animating
    /\ localStorage = w.localStorage
    /\ autoSaveInterval = w.autoSaveInterval
    /\ timers = w.timers
    /\ timerIds = w.timerIds
    /\ zoom = w.zoom
    /\ panX = w.panX
    /\ panY = w.panY
    /\ pendingImages = w.pendingImages
    /\ pdfImport = w.pdfImport
    /\ isPanning = w.isPanning
    /\ lastXY = w.lastXY
    /\ spacePressed = w.spacePressed
    /\ currentTool = w.currentTool
    /\ isDrawing = w.isDrawing
    /\ currentStroke = w.currentStroke
    /\ touchStartDistance = w.touchStartDistance
    /\ lastTouch = w.lastTouch
    /\ buttons = w.buttons
    /\ touches = w.touches
    /\ lastOp = [op |-> op, ret |-> ret]

Init ==
    /\ objs = <<>>
    /\ elements = <<>>
    /\ selectedElements = <<>>
    /\ nextZIndex = 0
    /\ clipboard = <<>>
    /\ undoStack = <<>>
    /\ redoStack = <<>>
    /\ isDraggingElement = FALSE
    /\ draggedElements = <<>>
    /\ draggedLive = FALSE
    /\ elementStartPositions = <<>>
    /\ dragStart = <<0, 0>>
    /\ isMarqueeSelecting = FALSE
    /\ marqueeStart = <<0, 0>>
    /\ marqueeCurrent = <<0, 0>>
    /\ sysClipboard \in {PlainText, JSON_stringify(<<>>)}
    /\ currentY = padding
    /\ animating = [element |-> 0, startY |-> 0]
    /\ localStorage = NoItem
    /\ autoSaveInterval = 1
    /\ timers = {1}
    /\ timerIds = 1
    /\ zoom = ZoomUnit
    /\ panX = Zero
    /\ panY = Zero
    /\ pendingImages = <<>>
    /\ pdfImport = NoImport
    /\ isPanning = FALSE
    /\ lastXY = <<0, 0>>
    /\ spacePressed = FALSE
    /\ currentTool = "select"
    /\ isDrawing = FALSE
    /\ currentStroke = <<>>
    /\ touchStartDistance = 0
    /\ lastTouch = <<0, 0>>
    /\ buttons = {}
    /\ touches = <<>>
    /\ lastOp = [op |-> "init", ret |-> "none"]

HeapRoom(n) == Len(objs) + n <= MaxObjs

StackRoom == Len(undoStack) < MaxStack

KeyDelete ==
    /\ Len(selectedElements) > 0
    /\ StackRoom
    /\ LET r == Controls_deleteSelected(World) IN Commit(r.w, "delete", r.ret)

KeyEscape ==
    /\ Len(selectedElements) > 0
    /\ Commit(clearSelection(World), "escape", "none")

KeyCtrlA ==
    /\ Commit(selectAll(World), "selectAll", "none")

KeyCtrlD ==
    /\ HeapRoom(IF Len(selectedElements) > 0 THEN Len(selectedElements) ELSE Len(clipboard))
    /\ Commit(duplicateSelected(World), "duplicate", "none")

KeyUndo ==
    /\ HeapRoom(IF Len(undoStack) > 0 /\ undoStack[Len(undoStack)].kind = "Delete"
                THEN Len(undoStack[Len(undoStack)].elementData) ELSE 0)
    /\ LET r == undo(World) IN Commit(r.w, "undo", r.ret)

KeyRedo ==
    /\ LET r == redo(World) IN Commit(r.w, "redo", r.ret)

LayerKeys == {"front", "forward", "back", "backward"}

KeyLayer ==
    \E key \in LayerKeys :
        /\ Len(selectedElements) > 0
        /\ LET w == handleLayerKey(World, key)
           IN /\ w.nextZIndex <= MaxZ
              /\ \A o \in Range(selectedElements) :
                    w.objs[o].zIndex >= 0 - MinZ /\ w.objs[o].zIndex <= MaxZ
              /\ Commit(w, key, "none")

InsertText ==
    \E p \in InsertPts :
        /\ HeapRoom(1)
        /\ StackRoom
        /\ LET r == insertText(World, p[1], p[2]) IN Commit(r.w, "insertText", r.ret)

MouseDownAt(p, ctrl) ==
    /\ ~isDraggingElement
    /\ ~isMarqueeSelecting
    /\ Commit(handleMouseDown(World, p, ctrl, 0), "mousedown", "none")

MouseDown == \E p \in DownPts, ctrl \in BOOLEAN : MouseDownAt(p, ctrl)

MouseMoveTo(p) ==
    /\ isDraggingElement \/ isMarqueeSelecting
    /\ LET r == handleMouseMove(World, p)
       IN Commit(r.w, "mousemove", IF r.ok THEN "none" ELSE "throw")

\* Every element lies within MaxCoord of the origin.
OnBoard(w) ==
    \A o \in 1..Len(w.objs) : w.objs[o].x \in 0..MaxCoord /\ w.objs[o].y \in 0..MaxCoord

\* The pointer moves with a button down: a drag or a marquee.
MouseMove ==
    \E p \in MovePts : OnBoard(handleMouseMove(World, p).w) /\ MouseMoveTo(p)

\* The pointer moves while a marquee is open.
MouseMarquee ==
    \E p \in MovePts : isMarqueeSelecting /\ MouseMoveTo(p)

MouseUpNow ==
    /\ isDraggingElement \/ isMarqueeSelecting
    /\ Commit(handleMouseUp(World), "mouseup", "none")

MouseUp ==
    /\ isDraggingElement /\ hasMoved(World) => StackRoom
    /\ MouseUpNow

Copy ==
    /\ Len(selectedElements) > 0
    /\ Commit(handleCopy(World), "copy", "none")

Paste ==
    \E p \in PastePts :
        /\ HeapRoom(IF Len(sysClipboard.entries) > 0
                    THEN Len(sysClipboard.entries) ELSE 1)
        /\ (Len(sysClipboard.entries) = 0 => StackRoom)
        /\ LET r == handlePaste(World, p[1], p[2]) IN Commit(r.w, "paste", r.ret)

\* handleUserMessage returns at once while isProcessing: one response at a time.
RenderTextStart ==
    /\ animating.element = 0
    /\ HeapRoom(1)
    /\ Commit(renderText_start(World), "renderText", "none")

RenderTextFinish ==
    /\ animating.element # 0
    /\ Commit(renderText_finish(World), "renderTextDone", "none")

\* The Clear control (main.js) and the window's resize listener
\* (BlackboardRenderer.initCanvas) both end in BlackboardRenderer.clear.
Renderer_clear(w) == [clear(w) EXCEPT !.currentY = padding]

ClearBoard ==
    /\ Len(objs) > 0
    /\ Commit(Renderer_clear(World), "clearBoard", "none")

\* ---------------------------------------------------------------- editing
\* Text, clicks and marquees, the clipboard, AI responses, Delete, undo and
\* redo, Clear.  Elements are not dragged and layers are not reordered.
Next ==
    \/ KeyDelete
    \/ KeyEscape
    \/ KeyCtrlA
    \/ KeyCtrlD
    \/ KeyUndo
    \/ KeyRedo
    \/ InsertText
    \/ MouseDown
    \/ MouseMarquee
    \/ MouseUp
    \/ ClearBoard
    \/ Copy
    \/ Paste
    \/ RenderTextStart
    \/ RenderTextFinish

Spec == Init /\ [][Next]_vars

\* ----------------------------------------------------------------- layers
\* Text, clicks, select-all, the layer keys, Delete, undo and redo, Clear.
NextLayer ==
    \/ InsertText
    \/ MouseDown
    \/ MouseUp
    \/ KeyCtrlA
    \/ KeyLayer
    \/ KeyDelete
    \/ KeyUndo
    \/ KeyRedo
    \/ ClearBoard

SpecLayer == Init /\ [][NextLayer]_vars

\* --------------------------------------------------------------- dragging
\* Text, clicks and drags of the selection, undo and redo.
NextDrag ==
    \/ InsertText
    \/ MouseDown
    \/ MouseMove
    \/ MouseUp
    \/ KeyUndo
    \/ KeyRedo

SpecDrag == Init /\ [][NextDrag]_vars

\* ---------------------------------------------------------------- history
\* One text element is dragged to the right, DragStep at a time, each drag
\* one Move command; commands are undone and redone between drags, and a new
\* drag starts only when nothing is left to redo.  The k-th command executed
\* is then known by its content: the Create of the element for k = 1, the
\* Move from DragStep * (k - 2) to DragStep * (k - 1) for k > 1.
FirstText ==
    /\ Len(objs) = 0
    /\ LET r == insertText(World, 0, 0) IN Commit(r.w, "insertText", r.ret)

GrabElement ==
    /\ Len(elements) = 1
    /\ redoStack = <<>>
    /\ objs[elements[1]].x + DragStep <= DragStep * (MaxHistory - 1)
    /\ MouseDownAt(<<objs[elements[1]].x + 5, 5>>, FALSE)

DragRight ==
    /\ isDraggingElement
    /\ ~hasMoved(World)
    /\ MouseMoveTo(<<dragStart[1] + DragStep, dragStart[2]>>)

HistoryUndo == ~isDraggingElement /\ KeyUndo

HistoryRedo == ~isDraggingElement /\ KeyRedo

NextHistory ==
    \/ FirstText
    \/ GrabElement
    \/ DragRight
    \/ MouseUpNow
    \/ HistoryUndo
    \/ HistoryRedo

SpecHistory == Init /\ [][NextHistory]_vars

\* ---------------------------------------------------------- command laws
\* The command classes driven directly: a command is built for the selected
\* elements of the store from their current values, and its execute() is
\* followed by its undo().
positionsOf(w, els) ==
    [i \in 1..Len(els) |->
        [id |-> w.objs[els[i]].id, x |-> w.objs[els[i]].x, y |-> w.objs[els[i]].y]]

zIndicesOf(w, els) == [i \in 1..Len(els) |-> w.objs[els[i]].zIndex]

ExecuteThenUndo(w, c) ==
    LET e == Command_execute(w, c)
        u == Command_undo(e.w, c)
    IN [w |-> u.w, ret |-> IF e.ok /\ u.ok THEN "none" ELSE "throw"]

Shifts == {<<10, 0>>, <<0, 10>>}

NewZs == {0, 2}

MoveThenUndo ==
    \E d \in Shifts :
        /\ Len(selectedElements) > 0
        /\ LET old == positionsOf(World, selectedElements)
               new == [i \in 1..Len(old) |-> [x |-> old[i].x + d[1], y |-> old[i].y + d[2]]]
               r == ExecuteThenUndo(World, MoveCommand(selectedElements, FALSE, old, new))
           IN Commit(r.w, "Move.execute;undo", r.ret)

LayerOrderThenUndo ==
    \E z \in NewZs :
        /\ Len(selectedElements) > 0
        /\ LET old == zIndicesOf(World, selectedElements)
               r == ExecuteThenUndo(World,
                        LayerOrderCommand(selectedElements, old,
                                          [i \in 1..Len(old) |-> z]))
           IN Commit(r.w, "LayerOrder.execute;undo", r.ret)

DeleteThenUndo ==
    /\ Len(selectedElements) > 0
    /\ Len(objs) + Len(selectedElements) <= MaxObjs + MaxRestored
    /\ LET r == ExecuteThenUndo(World, DeleteCommand(World, selectedElements))
       IN Commit(r.w, "Delete.execute;undo", r.ret)

\* Create for an element of the store, as every caller in the program builds it.
CreateThenUndo ==
    \E i \in 1..Len(selectedElements) :
        LET r == ExecuteThenUndo(World, CreateCommand(selectedElements[i]))
        IN Commit(r.w, "Create.execute;undo", r.ret)

\* Create for a constructed element that is not in the store.
CreateNewThenUndo ==
    /\ HeapRoom(1)
    /\ LET w == [World EXCEPT !.objs = Append(@, CanvasElement(World, "text", 0, 0))]
           r == ExecuteThenUndo(w, CreateCommand(LastObj(w)))
       IN Commit(r.w, "Create(new).execute;undo", r.ret)

NextCmd ==
    \/ InsertText
    \/ KeyCtrlA
    \/ KeyCtrlD
    \/ MouseDown
    \/ MouseUp
    \/ MoveThenUndo
    \/ LayerOrderThenUndo
    \/ DeleteThenUndo
    \/ CreateThenUndo
    \/ CreateNewThenUndo

SpecCmd == Init /\ [][NextCmd]_vars

\* -------------------------------------------------------------- clipboard
\* Text, Ctrl+D, clicks, select-all, copy, and paste with the pointer on
\* one of two targets.  A paste may add MaxPasted objects to MaxObjs, so
\* that a copy of two elements can be pasted.
PasteTargets == {<<5, 5>>, <<30, 10>>}

PasteAnywhere ==
    \E p \in PasteTargets :
        /\ Len(objs) + (IF Len(sysClipboard.entries) > 0
                        THEN Len(sysClipboard.entries) ELSE 1) <= MaxObjs + MaxPasted
        /\ (Len(sysClipboard.entries) = 0 => StackRoom)
        /\ LET r == handlePaste(World, p[1], p[2]) IN Commit(r.w, "paste", r.ret)

NextClipboard ==
    \/ InsertText
    \/ KeyCtrlD
    \/ KeyCtrlA
    \/ MouseDown
    \/ MouseUp
    \/ Copy
    \/ PasteAnywhere

\* What the system clipboard holds at first: plain text, JSON that is not
\* an array, or the empty array.
FirstClips == {PlainText, NonArrayJSON, JSON_stringify(<<>>)}

InitClipboard ==
    \E clip \in FirstClips :
        StartWith(startAutoSave(Blank(<<>>, NoItem, clip)), "init", "none")

SpecClipboard == InitClipboard /\ [][NextClipboard]_vars

\* A page load constructs every component anew and loads the saved canvas
\* when there is one.  The heap is kept across page loads so that ids stay
\* fresh, as generateId's time stamp and random suffix keep them.
\* AIBlackboard.setup: returns the state and what loadCanvas returned
\* ("none" when it was not called).
setup(heap, store, clip) ==
    LET r == IF store.kind # "none" THEN loadCanvas(Blank(heap, store, clip))
             ELSE [w |-> Blank(heap, store, clip), ret |-> "none"]
    IN [w |-> startAutoSave(r.w), ret |-> r.ret]

\* What the first page load may find in localStorage besides nothing and
\* the two items deserializeCanvas rejects: a document saved before
\* elements had a zIndex, and a document whose second entry is null.
OldDocument ==
    [kind |-> "canvas",
     elements |-> <<[json |-> "object", id |-> 1, type |-> "text", x |-> 0, y |-> 0,
                     width |-> TextSize[1], height |-> TextSize[2],
                     zIndex |-> JS_undefined]>>]

TornDocument ==
    [kind |-> "canvas",
     elements |-> <<[json |-> "object", id |-> 1, type |-> "text", x |-> 0, y |-> 0,
                     width |-> TextSize[1], height |-> TextSize[2], zIndex |-> 0],
                    NullEntry>>]

PersistedItems == {NoItem, NotJSON, NoElementsArray, OldDocument, TornDocument}

\* What the system clipboard holds at first: plain text, or the text "[{}]".
ForeignClips == {PlainText, JSON_stringify(<<EmptyObject>>)}

InitStorage ==
    \E store \in PersistedItems, clip \in ForeignClips :
        LET r == setup(<<>>, store, clip)
        IN /\ objs = r.w.objs
           /\ elements = r.w.elements
           /\ selectedElements = r.w.selectedElements
           /\ nextZIndex = r.w.nextZIndex
           /\ clipboard = r.w.clipboard
           /\ undoStack = r.w.undoStack
           /\ redoStack = r.w.redoStack
           /\ isDraggingElement = r.w.isDraggingElement
           /\ draggedElements = r.w.draggedElements
           /\ draggedLive = r.w.draggedLive
           /\ elementStartPositions = r.w.elementStartPositions
           /\ dragStart = r.w.dragStart
           /\ isMarqueeSelecting = r.w.isMarqueeSelecting
           /\ marqueeStart = r.w.marqueeStart
           /\ marqueeCurrent = r.w.marqueeCurrent
           /\ sysClipboard = r.w.sysClipboard
           /\ currentY = r.w.currentY
           /\ animating = r.w.animating
           /\ localStorage = r.w.localStorage
           /\ autoSaveInterval = r.w.autoSaveInterval
           /\ timers = r.w.timers
           /\ timerIds = r.w.timerIds
           /\ zoom = r.w.zoom
           /\ panX = r.w.panX
           /\ panY = r.w.panY
           /\ pendingImages = r.w.pendingImages
           /\ pdfImport = r.w.pdfImport
           /\ isPanning = r.w.isPanning
           /\ lastXY = r.w.lastXY
           /\ spacePressed = r.w.spacePressed
           /\ currentTool = r.w.currentTool
           /\ isDrawing = r.w.isDrawing
           /\ currentStroke = r.w.currentStroke
           /\ touchStartDistance = r.w.touchStartDistance
           /\ lastTouch = r.w.lastTouch
           /\ buttons = r.w.buttons
           /\ touches = r.w.touches
           /\ lastOp = [op |-> "setup", ret |-> r.ret]

\* The autosave timer fires.
AutoSave ==
    /\ timers # {}
    /\ localStorage # serializeCanvas(World)
    /\ Commit(saveCanvas(World), "saveCanvas", "true")

\* The page is loaded again.
Reload ==
    /\ Len(objs) + Len(localStorage.elements) <= MaxObjs + MaxLoaded
    /\ LET r == setup(objs, localStorage, sysClipboard)
       IN Commit(r.w, "setup", r.ret)

NextStorage ==
    \/ InsertText
    \/ KeyCtrlA
    \/ KeyLayer
    \/ Paste
    \/ AutoSave
    \/ Reload

SpecStorage == InitStorage /\ [][NextStorage]_vars

\* The page as setup leaves it when nothing was saved, the system clipboard
\* holding plain text.
InitView == StartWith(startAutoSave(Blank(<<>>, NoItem, PlainText)), "init", "none")

\* ----------------------------------------------------------------- images
\* Images are inserted and load and decode in any order, while elements
\* are selected, deleted and brought back by undo.  The files are a small
\* image, a wide one and a tall one.
ImageFiles == {<<30, 20>>, <<1000, 500>>, <<400, 800>>}
ImagePts == {<<0, 0>>, <<20, 20>>}

Loading(w) == {i \in 1..Len(w.pendingImages) : w.pendingImages[i].kind = "load"}

InsertImage ==
    \E file \in ImageFiles, p \in ImagePts :
        /\ HeapRoom(Cardinality(Loading(World)) + 1)
        /\ Commit(insertImage(World, file, p[1], p[2]), "insertImage", "none")

ImageLoaded ==
    \E i \in Loading(World) :
        /\ StackRoom
        /\ LET r == imageLoaded(World, i) IN Commit(r.w, "imageLoaded", r.ret)

ImageDecoded ==
    \E i \in 1..Len(pendingImages) :
        /\ pendingImages[i].kind = "decode"
        /\ ~pendingImages[i].complete
        /\ Commit(imageDecoded(World, i), "imageDecoded", "none")

NextImages ==
    \/ InsertImage
    \/ ImageLoaded
    \/ ImageDecoded
    \/ MouseDown
    \/ MouseUp
    \/ KeyDelete
    \/ KeyUndo

SpecImages == InitView /\ [][NextImages]_vars

\* ----------------------------------------------------------------- import
\* Segments of a PDF page are imported, the call resuming from its awaits,
\* while the autosave interval fires and elements are selected and deleted.
Selections ==
    {<<TextSegment>>, <<GraphicSegment>>,
     <<TextSegment, GraphicSegment>>, <<GraphicSegment, TextSegment>>,
     <<GraphicSegment, GraphicSegment>>, <<TextSegment, ImageSegment>>}

ImportSelected ==
    \E selected \in Selections :
        /\ pdfImport = NoImport
        /\ HeapRoom(Len(selected))
        /\ Len(undoStack) + Len(selected) <= MaxStack
        /\ Commit(importSelected(World, selected), "importSelected", "none")

ImportResume ==
    /\ pdfImport.next # 0
    /\ Commit(importResume(World), "importResume", "none")

NextImport ==
    \/ ImportSelected
    \/ ImportResume
    \/ AutoSave
    \/ KeyCtrlA
    \/ KeyDelete

SpecImport == InitView /\ [][NextImport]_vars

\* ----------------------------------------------------------------- commit
\* Text, clicks, and drags that end near the threshold of handleMouseUp:
\* where the button went down, at a distance of exactly 5 from there, and
\* a little farther; undo.
NearPts == {<<5, 5>>, <<8, 9>>, <<9, 9>>}

MouseDownNear == MouseDownAt(<<5, 5>>, FALSE)

MouseMoveNear ==
    \E p \in NearPts : OnBoard(handleMouseMove(World, p).w) /\ MouseMoveTo(p)

NextCommit ==
    \/ InsertText
    \/ MouseDownNear
    \/ MouseMoveNear
    \/ MouseUp
    \/ KeyUndo

SpecCommit == InitView /\ [][NextCommit]_vars

\* ------------------------------------------------------------------ timer
\* Text is inserted and deleted while autosave is started and stopped and
\* the running intervals fire.
StartAutoSave ==
    /\ (autoSaveInterval = 0 => timerIds < MaxTimers)
    /\ Commit(startAutoSave(World), "startAutoSave", "none")

StopAutoSave ==
    /\ Commit(stopAutoSave(World), "stopAutoSave", "none")

NextTimer ==
    \/ InsertText
    \/ KeyCtrlA
    \/ KeyDelete
    \/ StartAutoSave
    \/ StopAutoSave
    \/ AutoSave

SpecTimer == InitView /\ [][NextTimer]_vars

\* ------------------------------------------------------------------- view
\* The wheel and the pinch zoom at the pointer, the toolbar buttons and
\* setZoom at the centre of the canvas; the canvas is panned and the view
\* reset.  A pinch spreads the touches far enough to pass either bound.
ViewPts == {<<0, 0>>, <<60, 30>>}
WheelDeltaY == {0 - 1500, 1500}
PinchSpread == {0 - 500, 500}
ButtonDelta == {0 - 100, 100}
SetZoomDelta == {0 - 2000, 2000}
PanSteps == {<<10, 0 - 10>>, <<0 - 10, 10>>}

InView(w) ==
    /\ w.panX[2] <= MaxPanDen
    /\ w.panY[2] <= MaxPanDen
    /\ Abs(w.panX[1]) <= MaxPan * w.panX[2]
    /\ Abs(w.panY[1]) <= MaxPan * w.panY[2]

Wheel ==
    \E p \in ViewPts, deltaY \in WheelDeltaY :
        LET w == handleWheel(World, p, deltaY)
        IN InView(w) /\ Commit(w, "wheel", "none")

Pinch ==
    \E p \in ViewPts, spread \in PinchSpread :
        LET w == handlePinch(World, p, spread)
        IN InView(w) /\ Commit(w, "pinch", "none")

ZoomButton ==
    \E delta \in ButtonDelta :
        LET w == zoomAt(World, CanvasWidth \div 2, CanvasHeight \div 2, delta)
        IN InView(w) /\ Commit(w, "zoomButton", "none")

SetZoom ==
    \E delta \in SetZoomDelta :
        LET w == setZoom(World, delta)
        IN InView(w) /\ Commit(w, "setZoom", "none")

Pan ==
    \E d \in PanSteps :
        LET w == pan(World, d[1], d[2])
        IN InView(w) /\ Commit(w, "pan", "none")

ResetView ==
    /\ Commit(resetView(World), "resetView", "none")

NextView ==
    \/ Wheel
    \/ Pinch
    \/ ZoomButton
    \/ SetZoom
    \/ Pan
    \/ ResetView

SpecView == InitView /\ [][NextView]_vars

\* ----------------------------------------------------------------- copies
\* Text, clicks and drags, Delete, copy and Ctrl+D: an element is copied,
\* then moved or deleted, and the copy is pasted by a Ctrl+D that finds
\* nothing selected.
NextCopies ==
    \/ InsertText
    \/ MouseDown
    \/ MouseMove
    \/ MouseUp
    \/ KeyDelete
    \/ Copy
    \/ KeyCtrlD

SpecCopies == Init /\ [][NextCopies]_vars

\* Text, AI responses, the layer keys, and the pointer on chosen points:
\* inside the inserted text, on empty board, on the corner where an AI
\* response starts, on the edge two AI responses share.  A marquee opened
\* on empty board is dragged over the inserted text, up to its right edge,
\* or up to the corner of the first AI response.
HitPts == {<<5, 5>>, <<25, 25>>, <<40, 40>>, <<40, 80>>}
MarqueePts == {<<5, 5>>, <<10, 5>>, <<40, 40>>}

MouseDownHit == \E p \in HitPts, ctrl \in BOOLEAN : MouseDownAt(p, ctrl)

MouseMarqueeHit ==
    \E p \in MarqueePts : isMarqueeSelecting /\ MouseMoveTo(p)

NextHit ==
    \/ InsertText
    \/ RenderTextStart
    \/ RenderTextFinish
    \/ MouseDownHit
    \/ MouseMarqueeHit
    \/ MouseUp
    \/ KeyLayer

SpecHit == Init /\ [][NextHit]_vars

\* -------------------------------------------------------------- sequences
\* Commands executed one after another through executeCommand and undone
\* one after another: the Create of an inserted text, Moves built for the
\* selected elements from their current positions, the Delete of the
\* selection.
ExecuteMove ==
    \E d \in Shifts :
        /\ Len(selectedElements) > 0
        /\ StackRoom
        /\ LET old == positionsOf(World, selectedElements)
               new == [i \in 1..Len(old) |-> [x |-> old[i].x + d[1], y |-> old[i].y + d[2]]]
               r == executeCommand(World, MoveCommand(selectedElements, FALSE, old, new))
           IN OnBoard(r.w) /\ Commit(r.w, "move", r.ret)

NextSeq ==
    \/ InsertText
    \/ KeyCtrlA
    \/ ExecuteMove
    \/ KeyDelete
    \/ KeyUndo

SpecSeq == InitView /\ [][NextSeq]_vars

\* ------------------------------------------------------------------ order
\* Text, clicks, the layer keys, and a Delete command for the selection
\* executed and undone at once.
NextOrder ==
    \/ InsertText
    \/ MouseDown
    \/ MouseUp
    \/ KeyLayer
    \/ DeleteThenUndo

SpecOrder == InitView /\ [][NextOrder]_vars

\* ----------------------------------------------------------------- stacks
\* The CommandManager in every interleaving of its calls: the Create of one
\* text, Moves of it to the right, DragStep at a time, executed also while
\* commands are left to redo, undo, redo, and CommandManager.clear, which
\* no handler calls.
ExecuteStep ==
    /\ Len(elements) = 1
    /\ objs[elements[1]].x + DragStep <= DragStep * (MaxHistory - 1)
    /\ LET old == positionsOf(World, elements)
           new == <<[x |-> old[1].x + DragStep, y |-> old[1].y]>>
           r == executeCommand(World, MoveCommand(elements, FALSE, old, new))
       IN Commit(r.w, "move", r.ret)

ClearHistory ==
    /\ undoStack # <<>> \/ redoStack # <<>>
    /\ Commit(CommandManager_clear(World), "clearHistory", "none")

NextStacks ==
    \/ FirstText
    \/ ExecuteStep
    \/ KeyUndo
    \/ KeyRedo
    \/ ClearHistory

SpecStacks == InitView /\ [][NextStacks]_vars

\* ---- the pointer: two mouse buttons, touches, the space key, the tools

MaxPoints == 2          \* points of a stroke
MaxDrift == 8           \* pans by pointer and by touch keep panX and panY within -MaxDrift..MaxDrift
PointerPts == {<<0, 0>>, <<6, 8>>}
TouchLists == {<< <<0, 0>> >>, << <<6, 8>> >>, << <<0, 0>>, <<12, 16>> >>}
MaxGestures == 2        \* commands on undoStack where the pointer is followed
MaxMarks == 1           \* element objects allocated where the pointer is followed
Tools == {"select", "draw"}

Fits(w) ==
    /\ Len(w.objs) <= MaxMarks
    /\ Len(w.undoStack) <= MaxGestures
    /\ Len(w.currentStroke) <= MaxPoints
    /\ InView(w)
    /\ Abs(w.panX[1]) <= MaxDrift * w.panX[2]
    /\ Abs(w.panY[1]) <= MaxDrift * w.panY[2]
    /\ OnBoard(w)

\* A button goes down on the canvas, Ctrl not held: the listener of
\* mousedown.
ButtonDown ==
    \E s \in PointerPts, button \in {0, 1} \ buttons :
        LET w == handleMouseDown(World, s, FALSE, button)
        IN Commit([w EXCEPT !.buttons = @ \cup {button}], "mousedown", "none")

\* The pointer moves over the canvas: the listener of mousemove.  It moves
\* only as far as releasing the button then stays within the bounds.
PointerMove ==
    \E s \in PointerPts :
        LET r == handleMouseMove(World, s)
        IN /\ Fits(r.w)
           /\ Fits(handleMouseUp(r.w))
           /\ Commit(r.w, "mousemove", IF r.ok THEN "none" ELSE "throw")

\* A button goes up anywhere: the listener of mouseup is on the window.
ButtonUp ==
    \E button \in buttons :
        LET w == handleMouseUp(World)
        IN Commit([w EXCEPT !.buttons = @ \ {button}], "mouseup", "none")

\* A click on a button of the toolbar: its mouseup reaches the window, its
\* click calls setTool.
ToolButton ==
    \E tool \in Tools :
        /\ 0 \notin buttons
        /\ tool # currentTool
        /\ Commit(setTool(handleMouseUp(World), tool), "setTool", "none")

\* The text tool: its button, a click on the canvas (handleTextClick opens
\* the textarea), the text and Enter.  No button and no finger is down, so
\* none of the four modes is on and the mouseup of the click changes
\* nothing.
TypeText ==
    \E s \in PointerPts :
        /\ elements = <<>>
        /\ buttons = {}
        /\ touches = <<>>
        /\ ~spacePressed
        /\ LET p == canvasCoords(World, s)
               r == insertText(World, p[1], p[2])
           IN /\ Fits(r.w)
              /\ Commit(setTool(r.w, "select"), "insertText", r.ret)

SpaceDown ==
    /\ ~spacePressed
    /\ Commit(handleSpaceDown(World), "keydown", "none")

SpaceUp ==
    /\ spacePressed
    /\ Commit(handleKeyUp(World), "keyup", "none")

\* One more finger on the canvas.
TouchStart ==
    \E ts \in TouchLists :
        /\ Len(ts) = Len(touches) + 1
        /\ SubSeq(ts, 1, Len(touches)) = touches
        /\ Commit([handleTouchStart(World, ts) EXCEPT !.touches = ts],
                  "touchstart", "none")

\* The fingers move.
TouchMove ==
    \E ts \in TouchLists :
        /\ Len(ts) = Len(touches)
        /\ ts # touches
        /\ LET w == handleTouchMove(World, ts)
           IN Fits(w) /\ Commit([w EXCEPT !.touches = ts], "touchmove", "none")

\* The last finger down leaves.
TouchEnd ==
    /\ touches # <<>>
    /\ Commit([handleTouchEnd(World) EXCEPT
                  !.touches = SubSeq(touches, 1, Len(touches) - 1)],
              "touchend", "none")

NextPointer ==
    \/ TypeText
    \/ ToolButton
    \/ SpaceDown
    \/ SpaceUp
    \/ ButtonDown
    \/ PointerMove
    \/ ButtonUp
    \/ TouchStart
    \/ TouchMove
    \/ TouchEnd

SpecPointer == InitView /\ [][NextPointer]_vars

\* ============================================================== properties
Reverse(q) == [i \in 1..Len(q) |-> q[Len(q) + 1 - i]]

StoreIds(w) == {w.objs[w.elements[j]].id : j \in 1..Len(w.elements)}

\* The places of the store of w that hold an element with this id.
InStore(w, id) == {j \in 1..Len(w.elements) : w.objs[w.elements[j]].id = id}

Fields(e) == <<e.id, e.x, e.y, e.width, e.height, e.zIndex>>

\* The store of w holds exactly one element with the id of e, and it has the
\* id, x, y, width, height and zIndex of e.
RestoredIn(w, e) ==
    /\ Cardinality(InStore(w, e.id)) = 1
    /\ \A j \in InStore(w, e.id) : Fields(w.objs[w.elements[j]]) = Fields(e)

\* A step of one of these execute-then-undo operations returns without
\* throwing, leaves every selected element (the command's elements among
\* them) in the store with its fields, and leaves the store's ids as they were.
InverseLawOn(ops) ==
    lastOp'.op \in ops =>
        /\ lastOp'.ret = "none"
        /\ \A o \in Range(selectedElements) : RestoredIn(World', objs[o])
        /\ StoreIds(World') = StoreIds(World)

SelectionWithinStore ==
    \A i \in 1..Len(selectedElements) : objs[selectedElements[i]].id \in StoreIds(World)

\* Two elements were selected; undo removed the newer one from the store, and
\* the older one is still selected.
SelectionWithinStoreWitness ==
    /\ lastOp = [op |-> "undo", ret |-> "true"]
    /\ redoStack = <<CreateCommand(2)>>
    /\ elements = <<1>>
    /\ selectedElements = <<1>>

\* C3: no two elements of the store share an id.
IdsUnique ==
    \A i, j \in 1..Len(elements) :
        objs[elements[i]].id = objs[elements[j]].id => i = j

\* An element was created, deleted, restored by undo (as a second object with
\* the same id), removed by the undo of its Create, and put back by redo.
IdsUniqueWitness ==
    /\ lastOp = [op |-> "redo", ret |-> "true"]
    /\ Len(objs) = 2
    /\ objs[2].id = objs[1].id
    /\ elements = <<1>>
    /\ Len(redoStack) = 1
    /\ redoStack[1].kind = "Delete"

\* A handler other than undo and redo changed the undo stack: it called
\* executeCommand, the only other writer of the stack.
Executed == lastOp'.op \notin {"undo", "redo"} /\ undoStack' # undoStack

\* C4: after executeCommand the redo stack is empty, and redo() on the empty
\* redo stack returns false and changes nothing.
RedoInvalidation ==
    [][/\ Executed => redoStack' = <<>>
       /\ (lastOp'.op = "redo" /\ redoStack = <<>>) =>
              (lastOp'.ret = "false" /\ World' = World)]_vars

\* The first element is gone and its Create is not on a stack; the Create of
\* the second element is the only command there is, and redo returned false.
RedoInvalidationWitness ==
    /\ lastOp = [op |-> "redo", ret |-> "false"]
    /\ undoStack = <<CreateCommand(2)>>
    /\ redoStack = <<>>
    /\ elements = <<2>>

\* The k-th command executed in the history scenario.
IsNthCommand(c, k) ==
    IF k = 1 THEN c = CreateCommand(1)
    ELSE /\ c.kind = "Move"
         /\ c.elements = <<1>>
         /\ c.oldPositions = <<[id |-> 1, x |-> DragStep * (k - 2), y |-> 0]>>
         /\ c.newPositions = <<[x |-> DragStep * (k - 1), y |-> 0]>>

\* The commands whose effect the board of the history scenario shows.
Applied == IF Len(elements) = 0 THEN 0 ELSE objs[1].x \div DragStep + 1

\* C5: the undo stack never holds more than maxUndoLevels commands; when n
\* commands were executed, the two stacks hold the Min(n, maxUndoLevels) most
\* recent of them in execution order, and the older ones stay applied when
\* everything that can be undone is undone.
UndoStackBound ==
    /\ Len(undoStack) <= maxUndoLevels
    /\ ~isDraggingElement =>
          LET kept == undoStack \o Reverse(redoStack)
              n == Applied + Len(redoStack)
          IN /\ Len(kept) = Min({n, maxUndoLevels})
             /\ \A i \in 1..Len(kept) : IsNthCommand(kept[i], n - Len(kept) + i)

\* 60 commands were executed (the Create and 59 drags) and none is undone.
UndoStackBoundWitness ==
    /\ lastOp.op = "mouseup"
    /\ redoStack = <<>>
    /\ Applied = 60
    /\ Len(undoStack) = maxUndoLevels

\* C6: undo() on the empty undo stack and redo() on the empty redo stack
\* return false and change nothing; on a non-empty stack they return true.
UndoRedoReturn ==
    [][/\ (lastOp'.op = "undo" /\ undoStack = <<>>) =>
              (lastOp'.ret = "false" /\ World' = World)
       /\ (lastOp'.op = "redo" /\ redoStack = <<>>) =>
              (lastOp'.ret = "false" /\ World' = World)
       /\ (lastOp'.op = "undo" /\ undoStack # <<>>) => lastOp'.ret = "true"
       /\ (lastOp'.op = "redo" /\ redoStack # <<>>) => lastOp'.ret = "true"]_vars

\* undo() threw on a Move command, which is then on neither stack.
UndoThrew ==
    /\ lastOp = [op |-> "undo", ret |-> "throw"]
    /\ redoStack = <<>>

\* C7: after the Clear control both stacks are empty, and an undo() or redo()
\* that follows returns false and leaves the store as it is.
HistoryClearedWithBoard ==
    [][/\ lastOp'.op = "clearBoard" => (undoStack' = <<>> /\ redoStack' = <<>>)
       /\ (lastOp.op = "clearBoard" /\ lastOp'.op \in {"undo", "redo"}) =>
              (lastOp'.ret = "false" /\ elements' = elements)]_vars

\* The board was cleared and the undo stack still holds a Delete.
HistorySurvivesClear ==
    /\ lastOp.op = "clearBoard"
    /\ Len(undoStack) > 0
    /\ undoStack[Len(undoStack)].kind = "Delete"

AddingOps == {"insertText", "duplicate", "paste", "renderText"}

\* C8: a user action that adds elements to the store pushes a Create command,
\* and the undo() that follows leaves the store as it was before the action.
AdditionsAreCommands ==
    [][(lastOp'.op \in AddingOps /\ elements' # elements) =>
          /\ undoStack' # undoStack
          /\ Len(undoStack') > 0
          /\ undoStack'[Len(undoStack')].kind = "Create"
          /\ undo(World').w.elements = elements]_vars

\* Ctrl+D added a second element; the only command is the Create of the first.
DuplicateWithoutCommand ==
    /\ lastOp.op = "duplicate"
    /\ elements = <<1, 2>>
    /\ undoStack = <<CreateCommand(1)>>

\* C9: a layer key pushes one LayerOrder command, and the undo() that follows
\* gives every selected element its previous zIndex.
LayerKeyIsCommand ==
    [][lastOp'.op \in LayerKeys =>
          /\ Len(undoStack') = Len(undoStack) + 1
          /\ undoStack'[Len(undoStack')].kind = "LayerOrder"
          /\ \A o \in Range(selectedElements) :
                undo(World').w.objs[o].zIndex = objs[o].zIndex]_vars

\* A layer key changed a zIndex, and the only command is the element's Create.
LayerKeyWithoutCommand ==
    /\ lastOp.op = "back"
    /\ undoStack = <<CreateCommand(1)>>
    /\ objs[1].zIndex < 0

\* C10: getAllElements() holds every element of the store exactly once, in
\* non-decreasing zIndex order, equal zIndex in insertion order.
RenderOrder ==
    LET all == getAllElements(World)
        place(o) == CHOOSE j \in 1..Len(elements) : elements[j] = o
    IN /\ Len(all) = Len(elements)
       /\ \A j \in 1..Len(elements) :
             Cardinality({i \in 1..Len(all) : all[i] = elements[j]}) = 1
       /\ \A i, k \in 1..Len(all) :
             i < k => \/ objs[all[i]].zIndex < objs[all[k]].zIndex
                      \/ /\ objs[all[i]].zIndex = objs[all[k]].zIndex
                         /\ place(all[i]) < place(all[k])

\* Layer keys left two elements with one and the same negative zIndex.
RenderOrderWitness ==
    /\ lastOp.op \in LayerKeys
    /\ Len(elements) = 2
    /\ objs[elements[1]].zIndex = objs[elements[2]].zIndex
    /\ objs[elements[1]].zIndex < 0

\* ------------------------------------------------------------------- C11
\* The closed box of element o contains point p.
Covers(o, p) ==
    /\ objs[o].x <= p[1] /\ p[1] <= objs[o].x + objs[o].width
    /\ objs[o].y <= p[2] /\ p[2] <= objs[o].y + objs[o].height

\* C11: for every query point, getElementAt returns null exactly when no
\* element's closed box contains the point, and otherwise an element whose
\* box contains it and whose zIndex is maximal among those that do.
HitTestTopWins ==
    \A p \in HitPts :
        LET hits == {o \in Range(elements) : Covers(o, p)}
            found == getElementAt(World, p[1], p[2])
        IN /\ (found = 0) <=> (hits = {})
           /\ found # 0 =>
                /\ found \in hits
                /\ \A o \in hits : objs[o].zIndex <= objs[found].zIndex

\* A click on two overlapping elements picked the one inserted first,
\* which a layer key had put on top.
HitTestTopWinsWitness ==
    /\ lastOp.op = "mousedown"
    /\ isDraggingElement
    /\ \E a, b \in Range(elements) :
          /\ a < b
          /\ Covers(a, dragStart) /\ Covers(b, dragStart)
          /\ objs[a].zIndex > objs[b].zIndex
          /\ selectedElements = <<a>>

\* ------------------------------------------------------------------- C12
\* C12: an element of zero area (width 0 or height 0) is never what
\* getElementAt returns, whatever the query point.
ZeroAreaNeverHit ==
    \A p \in HitPts :
        LET found == getElementAt(World, p[1], p[2])
        IN found # 0 => objs[found].width > 0 /\ objs[found].height > 0

\* A click selected an element of zero area and started dragging it.
ZeroAreaHit ==
    /\ lastOp.op = "mousedown"
    /\ isDraggingElement
    /\ Len(selectedElements) = 1
    /\ objs[selectedElements[1]].width = 0
    /\ objs[selectedElements[1]].height = 0

\* ------------------------------------------------------------------- C13
\* The box of element o and the rectangle overlap in more than an edge.
StrictlyIntersects(o, x, y, width, height) ==
    /\ objs[o].x < x + width /\ objs[o].x + objs[o].width > x
    /\ objs[o].y < y + height /\ objs[o].y + objs[o].height > y

\* A marquee is open over a rectangle that an element touches only along
\* an edge or at a corner, and selectInBounds selects that element.
EdgeTouchSelected ==
    /\ isMarqueeSelecting
    /\ LET x == MinOf(marqueeStart[1], marqueeCurrent[1])
           y == MinOf(marqueeStart[2], marqueeCurrent[2])
           width == Abs(marqueeCurrent[1] - marqueeStart[1])
           height == Abs(marqueeCurrent[2] - marqueeStart[2])
       IN /\ width > 2 /\ height > 2
          /\ \E o \in Range(selectInBounds(World, x, y, width, height).selectedElements) :
                ~StrictlyIntersects(o, x, y, width, height)

\* C13: a marquee released over a rectangle (larger than 2 by 2, so that
\* selectInBounds is called) makes the selection exactly the elements whose
\* box strictly intersects the rectangle; an element that only touches the
\* rectangle at an edge or a corner is not selected.
MarqueeSelectsStrictly ==
    [][(lastOp'.op = "mouseup" /\ isMarqueeSelecting) =>
        LET x == MinOf(marqueeStart[1], marqueeCurrent[1])
            y == MinOf(marqueeStart[2], marqueeCurrent[2])
            width == Abs(marqueeCurrent[1] - marqueeStart[1])
            height == Abs(marqueeCurrent[2] - marqueeStart[2])
        IN (width > 2 /\ height > 2) =>
             selectedElements' =
                SelectSeq(elements,
                          LAMBDA o : StrictlyIntersects(o, x, y, width, height))]_vars

\* ------------------------------------------------------------------- C14
\* The element the store draws last (on top).
Topmost(w) == getAllElements(w)[Len(getAllElements(w))]

\* C14: a newly added element is topmost: right after a text is inserted
\* (addElement), the new element is the last of getAllElements(), whatever
\* layer keys, deletions and undos came before.
NewElementTopmost ==
    [][lastOp'.op = "insertText" => Topmost(World') = LastObj(World')]_vars

\* A text was just inserted and an older element is drawn above it.
NewElementBelow ==
    /\ lastOp.op = "insertText"
    /\ Len(elements) > 1
    /\ Topmost(World) # LastObj(World)

\* ------------------------------------------------------------------- C15
\* C15: after bringToFront(e) (Ctrl+Shift+] with e alone selected), e is
\* the last element of getAllElements().
FrontIsLast ==
    [][(lastOp'.op = "front" /\ Len(selectedElements) = 1) =>
        Topmost(World') = selectedElements[1]]_vars

\* bringToFront just ran on the one selected element and another element
\* is still drawn above it.
FrontNotLast ==
    /\ lastOp.op = "front"
    /\ Len(selectedElements) = 1
    /\ Topmost(World) # selectedElements[1]

\* ------------------------------------------------------------------- C16
\* C16: after sendToBack(e) (Ctrl+Shift+[ with e alone selected), e.zIndex
\* is the minimum zIndex over all elements before the call, minus one; the
\* zIndex of every other element is unchanged; e is the first element of
\* getAllElements().
BackIsFirst ==
    [][(lastOp'.op = "back" /\ Len(selectedElements) = 1) =>
        LET e == selectedElements[1]
        IN /\ objs'[e].zIndex = Min({objs[o].zIndex : o \in Range(elements)}) - 1
           /\ \A o \in (1..Len(objs)) \ {e} : objs'[o].zIndex = objs[o].zIndex
           /\ getAllElements(World')[1] = e]_vars

\* sendToBack just ran on the element inserted last, which now lies below
\* the other element of the store.
BackIsFirstWitness ==
    /\ lastOp.op = "back"
    /\ Len(elements) = 2
    /\ selectedElements = <<elements[2]>>
    /\ objs[elements[2]].zIndex = objs[elements[1]].zIndex - 1
    /\ getAllElements(World) = <<elements[2], elements[1]>>

\* ------------------------------------------------------------------- C17
\* C17: removeElement(id) is total and idempotent.  For every id, in the
\* store or not: the call leaves exactly the elements and the selected
\* elements whose id differs (so nothing changes when no element has the
\* id, and the element leaves both arrays when one has), no element object
\* is modified, and a second call with the same id changes nothing.
RemoveIdempotentTotal ==
    \A id \in 1..(Len(objs) + 1) :
        LET w1 == removeElement(World, id)
            w2 == removeElement(w1, id)
        IN /\ w1.elements = SelectSeq(elements, LAMBDA o : objs[o].id # id)
           /\ w1.selectedElements =
                 SelectSeq(selectedElements, LAMBDA o : objs[o].id # id)
           /\ InStore(World, id) = {} =>
                 w1.elements = elements /\ w1.selectedElements = selectedElements
           /\ w1.objs = objs
           /\ w2 = w1

\* Redo of a Delete command just called removeElement on a board emptied
\* by Clear (nothing was added since: nextZIndex is still 0), so for an id
\* no element has.
RemoveAbsentWitness ==
    /\ lastOp = [op |-> "redo", ret |-> "true"]
    /\ undoStack # <<>>
    /\ undoStack[Len(undoStack)].kind = "Delete"
    /\ Len(objs) > 0
    /\ elements = <<>>
    /\ nextZIndex = 0

\* ------------------------------------------------------------------- C18
\* What a saved document is to reproduce of the store: for each element of
\* getAllElements(), in order, its id, type, x, y, width, height, zIndex.
SavedFields(w) ==
    [i \in 1..Len(getAllElements(w)) |->
        LET el == w.objs[getAllElements(w)[i]]
        IN <<el.id, el.type, el.x, el.y, el.width, el.height, el.zIndex>>]

\* C18: round trip.  When the item in localStorage is what serializeCanvas
\* gives for the present store and the page is loaded again, loadCanvas
\* yields a store whose getAllElements() sequence has the same ids, types,
\* x, y, width, height and zIndex as before.
RoundTrip ==
    [][(lastOp'.op = "setup" /\ localStorage = serializeCanvas(World)) =>
        /\ lastOp'.ret = "true"
        /\ SavedFields(World') = SavedFields(World)]_vars

\* A saved canvas was loaded and an element came back with x = null.
RoundTripLostPosition ==
    /\ lastOp = [op |-> "setup", ret |-> "true"]
    /\ \E o \in Range(elements) : objs[o].x = JS_null

\* ------------------------------------------------------------------- C19
\* C19: load is all or nothing.  When loadCanvas has returned false, the
\* store is as it was before the call, which is the store of a manager
\* just constructed: elements, selectedElements and clipboard empty,
\* nextZIndex 0.
LoadAllOrNothing ==
    (lastOp = [op |-> "setup", ret |-> "false"]) =>
        /\ elements = <<>>
        /\ selectedElements = <<>>
        /\ clipboard = <<>>
        /\ nextZIndex = 0

\* loadCanvas returned false and left a loaded element in the store.
PartialLoad ==
    /\ lastOp = [op |-> "setup", ret |-> "false"]
    /\ Len(elements) > 0
    /\ nextZIndex > 0

\* loadCanvas returned false for an item deserializeCanvas rejects.
RejectedLoad ==
    /\ lastOp = [op |-> "setup", ret |-> "false"]
    /\ localStorage \in {NotJSON, NoElementsArray}

\* ------------------------------------------------------------------- C20
\* The entries of a snapshot all have numeric positions.
WellFormed(entries) ==
    \A i \in 1..Len(entries) :
        {entries[i].x, entries[i].y} \cap {JS_NaN, JS_null, JS_undefined} = {}

\* C20: paste anchoring.  Whenever the clipboard text is a well-formed
\* snapshot array, pasteFromJSON at any target creates one new element per
\* entry, entry i at target + (its position - the minimum over the
\* entries), with the entry's type and size, an id no element object has,
\* and the next values of the zIndex counter; the new elements are the new
\* selection, they follow the old elements in the store, and no older
\* element object changes.
PasteAnchoring ==
    (sysClipboard.kind = "json" /\ WellFormed(sysClipboard.entries)) =>
        \A t \in PasteTargets :
            LET doc == sysClipboard.entries
                r == pasteFromJSON(World, sysClipboard, t[1], t[2])
                minX == Min({doc[i].x : i \in 1..Len(doc)})
                minY == Min({doc[i].y : i \in 1..Len(doc)})
                new == [i \in 1..Len(doc) |-> Len(objs) + i]
            IN /\ r.n = Len(doc)
               /\ Len(r.w.objs) = Len(objs) + Len(doc)
               /\ r.w.elements = elements \o new
               /\ r.w.selectedElements = new
               /\ r.w.nextZIndex = nextZIndex + Len(doc)
               /\ \A o \in 1..Len(objs) : r.w.objs[o] = objs[o]
               /\ \A i \in 1..Len(doc) :
                     LET el == r.w.objs[new[i]]
                     IN /\ el.x = t[1] + (doc[i].x - minX)
                        /\ el.y = t[2] + (doc[i].y - minY)
                        /\ el.type = doc[i].type
                        /\ el.width = doc[i].width
                        /\ el.height = doc[i].height
                        /\ el.zIndex = nextZIndex + i - 1
                        /\ \A o \in 1..Len(r.w.objs) :
                              o # new[i] => r.w.objs[o].id # el.id

\* A copy of two elements, DuplicateOffset apart and away from the target,
\* was just pasted: the two new elements are the selection, the first at
\* the target and the second DuplicateOffset from it.
PasteAnchoringWitness ==
    /\ lastOp.op = "paste"
    /\ sysClipboard.kind = "json"
    /\ Len(sysClipboard.entries) = 2
    /\ Len(selectedElements) = 2
    /\ \E t \in PasteTargets :
          /\ <<sysClipboard.entries[1].x, sysClipboard.entries[1].y>> # t
          /\ objs[selectedElements[1]].x = t[1]
          /\ objs[selectedElements[1]].y = t[2]
          /\ objs[selectedElements[2]].x = t[1] + DuplicateOffset
          /\ objs[selectedElements[2]].y = t[2] + DuplicateOffset
          /\ \A i \in 1..2 : selectedElements[i] > Len(objs) - 2

\* ------------------------------------------------------------------- C21
\* C21: pasteFromJSON fails soft.  For text that is not JSON and for JSON
\* that is not an array, at any target, it returns no element and changes
\* nothing: elements, selectedElements and nextZIndex are as before.
PasteFailsSoft ==
    \A json \in {PlainText, NonArrayJSON}, t \in PasteTargets :
        LET r == pasteFromJSON(World, json, t[1], t[2])
        IN /\ r.n = 0
           /\ r.w.elements = elements
           /\ r.w.selectedElements = selectedElements
           /\ r.w.nextZIndex = nextZIndex
           /\ r.w = World

\* JSON that is not an array was just pasted: handlePaste went on to insert
\* it as text, and the selection is still there.
PasteFailsSoftWitness ==
    /\ lastOp.op = "paste"
    /\ sysClipboard = NonArrayJSON
    /\ Len(selectedElements) > 0
    /\ undoStack # <<>>
    /\ undoStack[Len(undoStack)] = CreateCommand(LastObj(World))
    /\ LastObj(World) \notin Range(selectedElements)

\* ------------------------------------------------------------------- C22
NotFinite == {JS_NaN, JS_null, JS_undefined}

\* C22: no non-finite geometry is ever stored.  Every element of the store
\* has numbers for x, y, width, height and zIndex: never NaN, undefined
\* or null.
GeometryFinite ==
    \A i \in 1..Len(elements) :
        LET el == objs[elements[i]]
        IN {el.x, el.y, el.width, el.height, el.zIndex} \cap NotFinite = {}

\* A paste of the text "[{}]" has put an element at (NaN, NaN) with
\* undefined width and height into the store.
NaNStored ==
    /\ lastOp.op = "paste"
    /\ sysClipboard = JSON_stringify(<<EmptyObject>>)
    /\ \E i \in 1..Len(elements) :
          /\ objs[elements[i]].x = JS_NaN
          /\ objs[elements[i]].y = JS_NaN
          /\ objs[elements[i]].width = JS_undefined
          /\ objs[elements[i]].height = JS_undefined

\* ------------------------------------------------------------------- C23
PasteOffsets == {<<DuplicateOffset, DuplicateOffset>>, <<0, 0>>, <<0 - 5, 7>>}

\* paste(offsetX, offsetY) in state w: one new element per clipboard entry,
\* at the recorded position plus the offset, with a new id and the zIndex
\* of the store's counter; the new elements are the selection, and no
\* element there was changes.
PasteLaw(w, offsetX, offsetY) ==
    LET r == paste(w, offsetX, offsetY)
        n == Len(w.clipboard)
        new == [i \in 1..n |-> Len(w.objs) + i]
    IN n > 0 =>
        /\ Len(r.objs) = Len(w.objs) + n
        /\ r.elements = w.elements \o new
        /\ r.selectedElements = new
        /\ r.nextZIndex = w.nextZIndex + n
        /\ \A o \in 1..Len(w.objs) : r.objs[o] = w.objs[o]
        /\ \A i \in 1..n :
              LET el == r.objs[new[i]]
              IN /\ el.x = w.clipboard[i].x + offsetX
                 /\ el.y = w.clipboard[i].y + offsetY
                 /\ el.type = w.clipboard[i].type
                 /\ el.width = w.clipboard[i].width
                 /\ el.height = w.clipboard[i].height
                 /\ el.zIndex = w.nextZIndex + i - 1
                 /\ \A o \in 1..Len(r.objs) : o # new[i] => r.objs[o].id # el.id

\* C23: paste creates new elements at the recorded position plus the
\* offset.  The clipboard holds the positions the selected elements had
\* when copySelected ran; no step other than a copy (or a duplicate with a
\* selection) changes them, whatever happens to the originals; and in every
\* state paste, at any offset, creates one new element per entry there,
\* selects exactly the new elements and leaves the others as they were.
PasteCreatesCopies ==
    [][/\ (lastOp'.op \in {"copy", "duplicate"} /\ Len(selectedElements) > 0) =>
             /\ Len(clipboard') = Len(selectedElements)
             /\ \A i \in 1..Len(selectedElements) :
                   /\ clipboard'[i].x = objs[selectedElements[i]].x
                   /\ clipboard'[i].y = objs[selectedElements[i]].y
       /\ ~(lastOp'.op \in {"copy", "duplicate"} /\ Len(selectedElements) > 0) =>
             clipboard' = clipboard
       /\ \A off \in PasteOffsets : PasteLaw(World, off[1], off[2])
       /\ lastOp'.op = "duplicate" =>
             World' = paste(copySelected(World), DuplicateOffset, DuplicateOffset)
      ]_vars

\* Ctrl+D with nothing selected has pasted an entry recorded earlier: no
\* element of the store is where that entry was recorded, the original
\* having been moved or deleted since.
PasteCreatesCopiesWitness ==
    /\ lastOp.op = "duplicate"
    /\ Len(clipboard) > 0
    /\ Len(selectedElements) = Len(clipboard)
    /\ \A i \in 1..Len(clipboard) :
          /\ objs[selectedElements[i]].x = clipboard[i].x + DuplicateOffset
          /\ objs[selectedElements[i]].y = clipboard[i].y + DuplicateOffset
          /\ \A e \in Range(elements) :
                ~(objs[e].x = clipboard[i].x /\ objs[e].y = clipboard[i].y)

\* ------------------------------------------------------------------- C24
\* Points zoomed at, and the deltas of the wheel, the pinch, the buttons
\* and setZoom, with the delta that changes nothing.
AnchorPts == ViewPts \cup {<<CanvasWidth \div 2, CanvasHeight \div 2>>}
AnchorDeltas ==
    {0} \cup ButtonDelta \cup SetZoomDelta
        \cup {0 - deltaY : deltaY \in WheelDeltaY}
        \cup {spread * 10 : spread \in PinchSpread}

\* C24: zoom stays within bounds.  After any sequence of zoomAt, setZoom,
\* pan and resetView calls, minZoom <= zoom <= maxZoom, and every further
\* zoomAt, at any point and with any delta, keeps it there.
ZoomWithinBounds ==
    /\ minZoom <= zoom
    /\ zoom <= maxZoom
    /\ \A p \in AnchorPts, delta \in AnchorDeltas :
          LET w == zoomAt(World, p[1], p[2], delta)
          IN minZoom <= w.zoom /\ w.zoom <= maxZoom

\* A pinch that spread the touches, asking for more than maxZoom, has left
\* zoom at maxZoom.
ZoomWithinBoundsWitness ==
    /\ lastOp.op = "pinch"
    /\ zoom = maxZoom
    /\ panX # Zero

AutoSaveIdempotent ==
    [][/\ Cardinality(timers) <= 1
       /\ timers = (IF autoSaveInterval = 0 THEN {} ELSE {autoSaveInterval})
       /\ (lastOp'.op = "startAutoSave" /\ autoSaveInterval # 0) =>
             (World' = World /\ Cardinality(timers') = 1)
       /\ lastOp'.op = "startAutoSave" => Cardinality(timers') = 1
       /\ (lastOp'.op = "stopAutoSave" /\ autoSaveInterval = 0) => World' = World
       /\ lastOp'.op = "stopAutoSave" => (timers' = {} /\ autoSaveInterval' = 0)
       /\ lastOp'.op = "saveCanvas" => autoSaveInterval # 0
      ]_vars

\* startAutoSave was called while the interval set by setup was running,
\* after a write of that interval: it is still the only one ever set.
AutoSaveIdempotentWitness ==
    /\ lastOp.op = "startAutoSave"
    /\ timerIds = 1
    /\ timers = {1}
    /\ localStorage.kind # "none"

\* ------------------------------------------------------------------- C27
\* C27: the drag-commit policy.  On mouse up while elements are dragged, a
\* Move command from the drag-start positions to the current positions is
\* pushed (and the redo stack emptied) if and only if some dragged element
\* is farther than DragThreshold from where it was when the drag started;
\* otherwise, as after a click without drag, nothing is pushed and the redo
\* stack is left as it is.
DragCommitPolicy ==
    [][(lastOp'.op = "mouseup" /\ isDraggingElement) =>
          LET far == \E i \in 1..Len(draggedElements) :
                        LET dx == objs[draggedElements[i]].x - elementStartPositions[i].x
                            dy == objs[draggedElements[i]].y - elementStartPositions[i].y
                        IN dx * dx + dy * dy > DragThreshold * DragThreshold
          IN /\ far =>
                  /\ Len(undoStack') = Len(undoStack) + 1
                  /\ SubSeq(undoStack', 1, Len(undoStack)) = undoStack
                  /\ undoStack'[Len(undoStack')].kind = "Move"
                  /\ undoStack'[Len(undoStack')].elements = draggedElements
                  /\ undoStack'[Len(undoStack')].oldPositions = elementStartPositions
                  /\ \A i \in 1..Len(draggedElements) :
                        undoStack'[Len(undoStack')].newPositions[i] =
                            [x |-> objs[draggedElements[i]].x,
                             y |-> objs[draggedElements[i]].y]
                  /\ redoStack' = <<>>
             /\ ~far => (undoStack' = undoStack /\ redoStack' = redoStack)
      ]_vars

\* The button went up on an element dragged by (3, 4), a distance of
\* exactly 5: no Move command is on either stack, and the undone command
\* is still there to redo.
DragCommitPolicyWitness ==
    /\ lastOp.op = "mouseup"
    /\ redoStack # <<>>
    /\ \A i \in 1..Len(undoStack) : undoStack[i].kind = "Create"
    /\ \A i \in 1..Len(redoStack) : redoStack[i].kind = "Create"
    /\ \E o \in Range(elements) : objs[o].x = 3 /\ objs[o].y = 4

\* ------------------------------------------------------------------- C28
\* The store of w holds the objects a and b, which differ in id and zIndex.
BothStored(w, a, b) ==
    /\ {a, b} \subseteq Range(w.elements)
    /\ w.objs[a].id # w.objs[b].id
    /\ w.objs[a].zIndex # w.objs[b].zIndex

\* C28: out-of-order completion is safe.  Two files loading complete in
\* either order with both elements in the store, distinct in id and zIndex,
\* and no older object changed; a completing load adds one element, at the
\* position and in the proportions of its own file, with an id and a zIndex
\* no element of the store has, and changes no other object; a completing
\* decode marks its own Image complete and changes no element at all.
CompletionOrderSafe ==
    [][/\ \A i, j \in Loading(World) :
             i < j =>
               LET a == imageLoaded(imageLoaded(World, i).w, j - 1).w
                   b == imageLoaded(imageLoaded(World, j).w, i).w
               IN /\ BothStored(a, Len(objs) + 1, Len(objs) + 2)
                  /\ BothStored(b, Len(objs) + 1, Len(objs) + 2)
                  /\ \A o \in 1..Len(objs) : a.objs[o] = objs[o] /\ b.objs[o] = objs[o]
                  /\ a.elements = b.elements
                  /\ {<<a.objs[o].x, a.objs[o].y, a.objs[o].width, a.objs[o].height>> :
                         o \in {Len(objs) + 1, Len(objs) + 2}}
                       = {<<b.objs[o].x, b.objs[o].y, b.objs[o].width, b.objs[o].height>> :
                            o \in {Len(objs) + 1, Len(objs) + 2}}
       /\ lastOp'.op = "imageLoaded" =>
             LET new == Len(objs) + 1
             IN /\ Len(objs') = new
                /\ elements' = Append(elements, new)
                /\ selectedElements' = selectedElements
                /\ \A o \in 1..Len(objs) :
                      objs'[o] = objs[o] /\ objs[o].id # objs'[new].id
                /\ \A e \in Range(elements) : objs[e].zIndex # objs'[new].zIndex
                /\ \E i \in Loading(World) :
                      /\ objs'[new].x = pendingImages[i].x
                      /\ objs'[new].y = pendingImages[i].y
                      /\ objs'[new].width <= pendingImages[i].file[1]
                      /\ objs'[new].height <= pendingImages[i].file[2]
                      /\ objs'[new].width * pendingImages[i].file[2]
                            = objs'[new].height * pendingImages[i].file[1]
                      /\ SubSeq(pendingImages', 1, Len(pendingImages) - 1)
                            = Without(pendingImages, i)
       /\ lastOp'.op = "imageDecoded" =>
             /\ objs' = objs
             /\ elements' = elements
             /\ selectedElements' = selectedElements
             /\ nextZIndex' = nextZIndex
             /\ \E i \in 1..Len(pendingImages) :
                   SubSeq(pendingImages', 1, Len(pendingImages))
                     = [pendingImages EXCEPT ![i].complete = TRUE]
      ]_vars

\* Two images of different sizes are in the store, and the Image of the
\* element created second has decoded before the Image of the first.
CompletionOrderSafeWitness ==
    /\ lastOp.op = "imageDecoded"
    /\ Len(elements) = 2
    /\ Len(pendingImages) = 2
    /\ pendingImages[1] = Decode(elements[1])
    /\ pendingImages[2] = [Decode(elements[2]) EXCEPT !.complete = TRUE]
    /\ objs[elements[1]].width # objs[elements[2]].width
    /\ objs[elements[1]].zIndex # objs[elements[2]].zIndex

\* ------------------------------------------------------------------- C29
\* C29: multi-step mutations are atomic with respect to other handlers.
\* Between two handlers no importSelected call is part-way through its
\* segments: whenever a call is suspended, it has not added an element yet,
\* so that no autosave tick, redraw or user event finds the store with only
\* some of the elements of an import.
ImportIsAtomic ==
    pdfImport.next # 0 => pdfImport.added = <<>>

\* The autosave interval has fired while an import of a text and a graphic
\* segment was waiting for the SVG: the saved document holds the text alone.
PartialImportSaved ==
    /\ lastOp.op = "saveCanvas"
    /\ pdfImport.segments = <<TextSegment, GraphicSegment>>
    /\ pdfImport.next = 2
    /\ Len(pdfImport.added) = 1
    /\ Len(localStorage.elements) = 1
    /\ localStorage.elements[1].type = "text"

\* ------------------------------------------------------------------- C30
\* getAllElements() as ids, positions, sizes and zIndex
Scene(w) ==
    [j \in 1..Len(w.elements) |->
        LET el == w.objs[getAllElements(w)[j]]
        IN [id |-> el.id, x |-> el.x, y |-> el.y,
            width |-> el.width, height |-> el.height, zIndex |-> el.zIndex]]

\* The commands of a stack, without the model's note on array identity
Commands(stack) ==
    [i \in 1..Len(stack) |->
        IF stack[i].kind = "Move" THEN [stack[i] EXCEPT !.live = FALSE] ELSE stack[i]]

\* C30: the undo/redo round trip.  When the undo stack is not empty, undo()
\* and then redo() both return true and leave both stacks with the commands
\* they had, in the same order, and getAllElements() with the same ids,
\* positions, sizes and zIndex in the same order.
UndoRedoRoundTrip ==
    undoStack # <<>> =>
        LET u == undo(World)
            r == redo(u.w)
        IN /\ u.ret = "true"
           /\ r.ret = "true"
           /\ Commands(r.w.undoStack) = Commands(undoStack)
           /\ Commands(r.w.redoStack) = Commands(redoStack)
           /\ Scene(r.w) = Scene(World)

\* The button went up on an element that a short drag had taken away from
\* where the Move command on top of the undo stack left it: undo() and
\* redo() both return true and put the element back there.
RoundTripMovesElement ==
    /\ lastOp.op = "mouseup"
    /\ undoStack # <<>>
    /\ undoStack[Len(undoStack)].kind = "Move"
    /\ \E i \in 1..Len(undoStack[Len(undoStack)].elements) :
          LET el == objs[undoStack[Len(undoStack)].elements[i]]
          IN <<el.x, el.y>> # <<undoStack[Len(undoStack)].newPositions[i].x,
                                undoStack[Len(undoStack)].newPositions[i].y>>
    /\ undo(World).ret = "true"
    /\ redo(undo(World).w).ret = "true"
    /\ Scene(redo(undo(World).w).w) # Scene(World)

\* ------------------------------------------------------------------- C31
\* What command c recorded of the store it was built for is true of the
\* store of w: a Move's elements are at its oldPositions, a Delete's
\* elements have the fields of its elementData.
AsBefore(w, c) ==
    CASE c.kind = "Move" ->
            \A i \in 1..Len(c.oldPositions) :
                /\ Cardinality(InStore(w, c.oldPositions[i].id)) = 1
                /\ \A j \in InStore(w, c.oldPositions[i].id) :
                      /\ w.objs[w.elements[j]].x = c.oldPositions[i].x
                      /\ w.objs[w.elements[j]].y = c.oldPositions[i].y
      [] c.kind = "Delete" ->
            \A i \in 1..Len(c.elementData) : RestoredIn(w, c.elementData[i])
      [] OTHER -> TRUE

\* C31: when commands were executed one after another and k of them are
\* undone, the store's elements have the id, x, y, width, height and zIndex
\* they had before the k-th last command was executed: every undo() returns
\* true and leaves the elements of the command it undid as they were when
\* the command was built.
HistoryConsistent ==
    [][(lastOp'.op = "undo" /\ undoStack # <<>>) =>
          /\ lastOp'.ret = "true"
          /\ AsBefore(World', undoStack[Len(undoStack)])]_vars

\* Create, Move, Delete, undo, undo: the element is in the store where the
\* Move had put it, and the Move is undone.
StaleMoveUndone ==
    /\ lastOp = [op |-> "undo", ret |-> "true"]
    /\ Len(redoStack) = 2
    /\ redoStack[1].kind = "Delete"
    /\ redoStack[2].kind = "Move"
    /\ Len(elements) = 1
    /\ objs[elements[1]].id = redoStack[2].oldPositions[1].id
    /\ objs[elements[1]].x = redoStack[2].newPositions[1].x
    /\ objs[elements[1]].y = redoStack[2].newPositions[1].y
    /\ <<objs[elements[1]].x, objs[elements[1]].y>> #
          <<redoStack[2].oldPositions[1].x, redoStack[2].oldPositions[1].y>>

\* ------------------------------------------------------------------- C32
\* C32: whatever happened to the selection since a drag committed a Move
\* command, the undo() of that command returns true, puts the dragged
\* elements at their drag-start positions, leaves every other element where
\* it is, and moves the command to the redo stack.
MoveUndoIndependent ==
    [][(/\ lastOp'.op = "undo"
        /\ undoStack # <<>>
        /\ undoStack[Len(undoStack)].kind = "Move") =>
          LET command == undoStack[Len(undoStack)]
              dragged == {command.elements[i] : i \in 1..Len(command.oldPositions)}
          IN /\ lastOp'.ret = "true"
             /\ \A i \in 1..Len(command.oldPositions) :
                   /\ objs'[command.elements[i]].x = command.oldPositions[i].x
                   /\ objs'[command.elements[i]].y = command.oldPositions[i].y
             /\ \A o \in 1..Len(objs) : o \notin dragged => objs'[o] = objs[o]
             /\ undoStack' = SubSeq(undoStack, 1, Len(undoStack) - 1)
             /\ redoStack' = Append(redoStack, command)]_vars

\* One element was dragged and a second one added to the selection by
\* Ctrl+click; undo() of the Move threw, the dragged element is back at its
\* drag-start position and the Move is on neither stack.
MoveLostOnUndo ==
    /\ lastOp = [op |-> "undo", ret |-> "throw"]
    /\ Len(selectedElements) = 2
    /\ undoStack = <<CreateCommand(1), CreateCommand(2)>>
    /\ redoStack = <<>>
    /\ <<objs[selectedElements[1]].x, objs[selectedElements[1]].y>> = <<0, 0>>

\* ------------------------------------------------------------------- C33
\* C33: for every query point, getElementAt returns the element that
\* getAllElements() lists last (the one painted last) among the elements
\* whose box contains the point, and null when there is none, also when
\* several of them have the same zIndex.
HitTestIsPaintOrder ==
    \A p \in HitPts :
        LET painted == SelectSeq(getAllElements(World),
                                 LAMBDA o : isPointInElement(World, o, p[1], p[2]))
            found == getElementAt(World, p[1], p[2])
        IN IF painted = <<>> THEN found = 0 ELSE found = painted[Len(painted)]

\* A click on two overlapping elements of one zIndex picked the one
\* inserted first, which is painted under the other.
HitBelowPaint ==
    /\ lastOp.op = "mousedown"
    /\ isDraggingElement
    /\ \E a, b \in Range(elements) :
          /\ a < b
          /\ Covers(a, dragStart) /\ Covers(b, dragStart)
          /\ objs[a].zIndex = objs[b].zIndex
          /\ getAllElements(World) = <<a, b>>
          /\ selectedElements = <<a>>

\* ------------------------------------------------------------------- C34
\* C34: when the button goes up on dragged elements and no Move command is
\* pushed on the undo stack, every dragged element has the x and y it had
\* when the drag started.
NoUnrecordedDisplacement ==
    [][(lastOp'.op = "mouseup" /\ isDraggingElement /\ undoStack' = undoStack) =>
          \A i \in 1..Len(draggedElements) :
              i <= Len(elementStartPositions) =>
                  /\ objs'[draggedElements[i]].x = elementStartPositions[i].x
                  /\ objs'[draggedElements[i]].y = elementStartPositions[i].y]_vars

\* The only element was dragged from (0, 0) to (3, 4) and released: it
\* stays there, and its Create is the only command there is.
DisplacedWithoutCommand ==
    /\ lastOp.op = "mouseup"
    /\ undoStack = <<CreateCommand(1)>>
    /\ redoStack = <<>>
    /\ elements = <<1>>
    /\ <<objs[1].x, objs[1].y>> = <<3, 4>>

\* ------------------------------------------------------------------- C35
\* C35: duplicateSelected() (Ctrl+D) adds exactly one new element per
\* selected element, at the position of the original plus DuplicateOffset
\* both ways; with nothing selected it adds no element and leaves the store
\* and the selection as they are, whatever the clipboard holds.
DuplicatePerSelected ==
    [][lastOp'.op = "duplicate" =>
          LET n == Len(selectedElements)
              new == [i \in 1..n |-> Len(objs) + i]
          IN /\ Len(objs') = Len(objs) + n
             /\ elements' = elements \o new
             /\ \A o \in 1..Len(objs) : objs'[o] = objs[o]
             /\ \A i \in 1..n :
                   /\ objs'[new[i]].x = objs[selectedElements[i]].x + DuplicateOffset
                   /\ objs'[new[i]].y = objs[selectedElements[i]].y + DuplicateOffset
             /\ n = 0 => selectedElements' = selectedElements]_vars

\* The only element was copied and deleted; Ctrl+D on the empty board, with
\* nothing selected, has added an element and selected it.
DuplicateOfNothing ==
    /\ lastOp.op = "duplicate"
    /\ Len(objs) = 2
    /\ elements = <<2>>
    /\ selectedElements = <<2>>
    /\ undoStack # <<>>
    /\ undoStack[Len(undoStack)].kind = "Delete"

\* ------------------------------------------------------------------- C36
\* The ids of getAllElements(), in its order.
RenderIds(w) == [i \in 1..Len(w.elements) |-> w.objs[getAllElements(w)[i]].id]

\* C36: a Delete command executed and then undone leaves getAllElements()
\* returning the same sequence of element ids as before, also when
\* several elements share a zIndex.
DeleteKeepsRenderOrder ==
    [][lastOp'.op = "Delete.execute;undo" => RenderIds(World') = RenderIds(World)]_vars

\* Two elements share a zIndex; the one inserted first was deleted and
\* restored, and is now drawn after the other.
RestoredOnTop ==
    /\ lastOp.op = "Delete.execute;undo"
    /\ Len(elements) = 2
    /\ objs[elements[1]].zIndex = objs[elements[2]].zIndex
    /\ RenderIds(World) = <<2, 1>>

\* ------------------------------------------------------------------- C37
\* C37: in every state the CommandManager reaches by executeCommand, undo,
\* redo and clear, in any order, the undo stack and the redo stack together
\* hold at most maxUndoLevels commands.
StacksBound == Len(undoStack) + Len(redoStack) <= maxUndoLevels

\* More than maxUndoLevels commands were executed, the Create of the
\* element was dropped from the undo stack, and some of the commands kept
\* are undone: the two stacks hold maxUndoLevels commands between them.
StacksBoundWitness ==
    /\ lastOp = [op |-> "undo", ret |-> "true"]
    /\ Len(undoStack) + Len(redoStack) = maxUndoLevels
    /\ Len(redoStack) > 1
    /\ Len(undoStack) > 1
    /\ undoStack[1].kind = "Move"

\* ------------------------------------------------------------------- C38
\* The modes of the pointer that are on.
Modes(w) ==
    {m \in {"isPanning", "isDraggingElement", "isDrawing", "isMarqueeSelecting"} :
        \/ m = "isPanning" /\ w.isPanning
        \/ m = "isDraggingElement" /\ w.isDraggingElement
        \/ m = "isDrawing" /\ w.isDrawing
        \/ m = "isMarqueeSelecting" /\ w.isMarqueeSelecting}

\* C38: in every state reached by any sequence of mouse down, move and up,
\* touch start, move and end, and key events, at most one of isPanning,
\* isDraggingElement, isDrawing and isMarqueeSelecting is true, and after
\* handleMouseUp all four are false.
ModesExclusive ==
    /\ Cardinality(Modes(World)) <= 1
    /\ lastOp.op = "mouseup" => Modes(World) = {}

\* The left button went down on an element and is held, and the middle
\* button went down: the element is being dragged and the canvas panned.
DragWhilePanning ==
    /\ lastOp.op = "mousedown"
    /\ buttons = {0, 1}
    /\ Len(draggedElements) = 1
    /\ Modes(World) = {"isPanning", "isDraggingElement"}

====
